---- MODULE Spec2Model ----
(***************************************************************************)
(* usb-manager: the batch copy engine (executeCopy, an async generator)    *)
(* over a small file system.  One action per atomic segment of the         *)
(* generator: the code between two suspension points (await / yield).      *)
(***************************************************************************)
EXTENDS Integers, Sequences, FiniteSets, TLC

(* ----------------------------- bounds --------------------------------- *)
MaxTasks == 2
MaxSize == 1
MaxRules == 3
MaxFailures == 1
MaxOps == 3
MaxChecks == 4
MaxDepth == 4
MaxEvents == 2

(* ------------------------- values and paths --------------------------- *)
Null == "null"
Omitted == "omitted"

\* source paths on the USB drive and their basename()
Sources == {"x/a", "y/b"}

Basename(s) == IF s = "x/a" THEN "a" ELSE "b"

\* a file is <<size, content variant>>; Missing: no such (readable) file
Missing == <<-1, 0>>

\* source files are empty or MaxSize bytes long
SrcFiles == {<<0, 1>>, <<MaxSize, 1>>}

\* files already on the destination disk: the same bytes as a source, or others
DestFiles == {<<MaxSize, 1>>, <<MaxSize, 2>>}

Size(f) == f[1]

\* destination directories: the rule's destination and the date-derived
\* sub-directory smart organization puts below it
OutDir == "out"

DatedDir == "out/dated"

Dirs == {OutDir, DatedDir}

Ancestors(d) == IF d = DatedDir THEN {OutDir, DatedDir} ELSE {d}

\* a destination path dir/base.ext (k = 0) or dir/base_k.ext (k >= 1); two
\* runs of MaxTasks tasks on a disk holding base_1 probe no further
MaxK == 2 * MaxTasks + 1

Path(d, b, k) == [dir |-> d, base |-> b, k |-> k]

DestPaths == {Path(d, b, k) : d \in Dirs, b \in {"a", "b"}, k \in 0..MaxK}

NoPath == Path("", "", 0)

Dirname(p) == p.dir

\* the CopyFileRequest values a request is built from
Task(s, p) == [sourcePath |-> s, destinationPath |-> p]

TaskPool ==
  { Task("x/a", Path(OutDir, "a", 0)),
    Task("y/b", Path(OutDir, "a", 0)),
    Task("y/b", Path(OutDir, "b", 0)) }

RECURSIVE SeqsUpTo(_, _)
SeqsUpTo(S, n) ==
  IF n = 0 THEN {<<>>}
  ELSE LET shorter == SeqsUpTo(S, n - 1)
       IN shorter \cup {Append(q, x) : q \in {t \in shorter : Len(t) = n - 1}, x \in S}

\* a request names each file once
NoRepeat(q) == \A m, n \in 1..Len(q) : q[m] = q[n] => m = n

Requests ==
  [files : {q \in SeqsUpTo(TaskPool, MaxTasks) : NoRepeat(q)},
   onDuplicate : {"skip", "overwrite", "rename", Omitted}]

\* what loadRules() returns: the feature flags, and autoDeleteAfterCopy of
\* the scheduledActions section; smartOrganization and scheduledActions
\* stand for the flag and the presence of the section it needs
FeatureConfigs ==
  [copyHistory : BOOLEAN, smartOrganization : BOOLEAN, contentDuplicates : BOOLEAN,
   scheduledActions : {FALSE}, autoDeleteAfterCopy : {FALSE}]

ActionConfigs ==
  [copyHistory : BOOLEAN, smartOrganization : {FALSE}, contentDuplicates : BOOLEAN,
   scheduledActions : {TRUE}, autoDeleteAfterCopy : BOOLEAN]

(* ------------------------------ state ---------------------------------- *)
VARIABLES
  srcFs,      \* the USB drive: source path -> file or Missing
  dstFs,      \* the destination disk: destination path -> file or Missing
  dirs,       \* destination directories that exist
  blocked,    \* destination directories mkdir cannot create
  run,        \* per invocation of executeCopy: its locals and position
  emitted,    \* per invocation: the snapshots yielded so far
  history,    \* history.json, most recent first
  plugged,    \* the USB drive is still plugged in
  cfgDir,     \* ~/.config/usb-manager: "present", "absent", or "blocked"
              \* (absent and mkdir fails)
  sse,        \* per POST /api/copy: what its catch wrote, and whether
              \* the response has been ended
  rules,        \* config.rules, as loadRules() returns them
  relativePath, \* the path last handed to matchFile
  matchedRule,  \* what matchFile returned for it
  lastEdit,     \* the last change the settings page saved to the rules
  drive,        \* the tree under the scan root: relative path -> is it a directory
  statFails,    \* the entries whose stat is rejected
  readdirFails, \* the directories whose readdir is rejected
  exclusions,   \* config.exclusions
  scanEntries,  \* what scanDirectory returned, in a sequence; empty before the call
  mounts,       \* the removable drives mounted right now
  watcher,      \* the watcher process: serverProcess, currentDrives, and the
                \* checkForDrives call under way
  twin,         \* the drive and disk a run started from and what it left, kept
                \* for the run that repeats it under another configuration
  preview,      \* GET /api/preview: the path asked for and the reply
  ui,           \* the web UI: the state of the App component
  reader        \* the client's reader of the progress stream

routeVars == <<cfgDir, sse>>

copyVars == <<srcFs, dstFs, dirs, blocked, run, emitted, history, plugged, routeVars>>

ruleVars == <<rules, relativePath, matchedRule, lastEdit>>

scanVars == <<drive, statFails, readdirFails, exclusions, scanEntries>>

watchVars == <<mounts, watcher>>

webVars == <<preview, ui, reader>>

otherVars == <<ruleVars, scanVars, watchVars, webVars, twin>>

vars == <<copyVars, ruleVars, scanVars, watchVars, webVars, twin>>

Runs == DOMAIN run

(* ------------------------ file system helpers -------------------------- *)
\* existsSync
ExistsSync(fs, p) == p \in DOMAIN fs /\ fs[p] # Missing

\* fs.stat(source): TRUE when it resolves
StatOk(s) == srcFs[s] # Missing

\* calculateFileHash: SHA-256 of the content read, taken as collision free
CalculateFileHash(f) == <<"sha256", f[1], f[2]>>

NoHash == <<"sha256", -1, 0>>

\* isDuplicate: FALSE when the destination is missing or a read fails
IsDuplicate(s, p) ==
  IF ~ExistsSync(dstFs, p) THEN FALSE
  ELSE IF srcFs[s] = Missing THEN FALSE
  ELSE CalculateFileHash(srcFs[s]) = CalculateFileHash(dstFs[p])

\* getUniqueDestPath: probe base_1, base_2, ... until one does not exist
RECURSIVE Probe(_, _, _)
Probe(fs, p, counter) ==
  LET newPath == Path(p.dir, p.base, counter)
  IN IF ExistsSync(fs, newPath) THEN Probe(fs, p, counter + 1) ELSE newPath

GetUniqueDestPath(fs, p) == IF ExistsSync(fs, p) THEN Probe(fs, p, 1) ELSE p

\* getOrganizedPath: join(baseDestination, "{year}/{month}/{day}/{name}")
GetOrganizedPath(s, baseDestination) ==
  Path(IF baseDestination = OutDir THEN DatedDir ELSE baseDestination, Basename(s), 0)

\* copyFile, first half: mkdirSync(destDir, {recursive: true}) when missing
MkdirNeeded(d) == d \notin dirs

MkdirFails(d) == (Ancestors(d) \ dirs) \cap blocked # {}

(* --------------------- CopyProgress, as the code updates it ------------- *)
\* variant: the id is one value kept at module level, shared by all runs
InitProgress_SharedId(id, totalFiles, totalBytes) ==
  [id |-> 0, status |-> "pending", totalFiles |-> totalFiles,
   copiedFiles |-> 0, skippedFiles |-> 0, totalBytes |-> totalBytes,
   copiedBytes |-> 0, currentFile |-> Null, error |-> Null]

\* the progress object literal of executeCopy
InitProgress(id, totalFiles, totalBytes) ==
  [id |-> id, status |-> "pending", totalFiles |-> totalFiles,
   copiedFiles |-> 0, skippedFiles |-> 0, totalBytes |-> totalBytes,
   copiedBytes |-> 0, currentFile |-> Null, error |-> Null]

\* variant: the first snapshot is yielded as it stands
FirstSnapshot_AsIs(p) == p

\* yield { ...progress, status: 'copying' }: the copy is changed, progress is not
FirstSnapshot(p) == [p EXCEPT !.status = "copying"]

\* progress.currentFile = file.sourcePath
SetCurrentFile(p, s) == [p EXCEPT !.currentFile = s]

\* variant: a skip credits the bytes but is not counted
CreditSkipped_BytesOnly(p, size) == [p EXCEPT !.copiedBytes = @ + size]

\* variant: copiedBytes = size instead of +=
CreditSkipped_Assign(p, size) ==
  [p EXCEPT !.copiedBytes = size, !.skippedFiles = @ + 1]

\* the skip branches: copiedBytes += size; skippedFiles += 1
CreditSkipped(p, size) ==
  [p EXCEPT !.copiedBytes = @ + size, !.skippedFiles = @ + 1]

\* variant: the copy is counted twice
CreditCopied_CountTwice(p, size) ==
  [p EXCEPT !.copiedBytes = @ + size, !.copiedFiles = @ + 2]

\* variant: totalBytes is pulled up when more bytes than announced were copied
CreditCopied_Clamp(p, size) ==
  [p EXCEPT !.copiedBytes = @ + size, !.copiedFiles = @ + 1,
            !.totalBytes = IF p.copiedBytes + size > @ THEN p.copiedBytes + size ELSE @]

\* after copyFile: copiedBytes += size; copiedFiles += 1
CreditCopied(p, size) ==
  [p EXCEPT !.copiedBytes = @ + size, !.copiedFiles = @ + 1]

\* the catch block: status = 'error'; error = errorMessage
FailProgress(p, msg) == [p EXCEPT !.status = "error", !.error = msg]

\* after the loop: status = 'completed'; currentFile = null
CompleteProgress(p) == [p EXCEPT !.status = "completed", !.currentFile = Null]

\* error.message of the rejected operation
ErrorMessage(kind) ==
  CASE kind = "stat" -> "ENOENT: no such file or directory, stat"
    [] kind = "mkdir" -> "EACCES: permission denied, mkdir"
    [] kind = "copy" -> "ENOENT: no such file or directory, open"
    [] kind = "config" -> "EACCES: permission denied, mkdir config"
    [] OTHER -> "ENOENT: no such file or directory, read"

\* request.onDuplicate ?? 'skip'
\* variant: an omitted policy defaults to overwrite
OnDuplicate_DefaultOverwrite(req) ==
  IF req.onDuplicate = Omitted THEN "overwrite" ELSE req.onDuplicate

OnDuplicate(req) == IF req.onDuplicate = Omitted THEN "skip" ELSE req.onDuplicate

(* ------------------------------ history -------------------------------- *)
MaxHistoryEntries == 1000

HistoryFile(s, p, size, status, hash, err) ==
  [sourcePath |-> s, destinationPath |-> p, size |-> size, status |-> status,
   hash |-> hash, error |-> err]

HistoryEntry(rec, status, err) ==
  [id |-> rec.progress.id, totalFiles |-> rec.totalFiles,
   copiedFiles |-> rec.progress.copiedFiles, skippedFiles |-> rec.progress.skippedFiles,
   totalBytes |-> rec.totalBytes, copiedBytes |-> rec.progress.copiedBytes,
   status |-> status, error |-> err, files |-> rec.historyFiles]

\* variant: the list is not cut
AddHistoryEntry_NoCap(entries, entry) == <<entry>> \o entries

\* addHistoryEntry: unshift, then keep the first 1000
AddHistoryEntry(entries, entry) ==
  LET all == <<entry>> \o entries
  IN IF Len(all) > MaxHistoryEntries THEN SubSeq(all, 1, MaxHistoryEntries) ELSE all

\* deleteHistoryEntry: the first entry with that id is spliced out
DeleteHistoryEntry(entries, id) ==
  LET found == {k \in 1..Len(entries) : entries[k].id = id}
      index == CHOOSE k \in found : \A m \in found : k <= m
  IN IF found = {} THEN entries
     ELSE SubSeq(entries, 1, index - 1) \o SubSeq(entries, index + 1, Len(entries))

\* history.json after n runs, one entry per run, written at times 1..n
StoredHistory(n) == [k \in 1..n |-> [id |-> n - k + 1, timestamp |-> n - k + 1]]

(* ----------------------- one invocation of executeCopy ----------------- *)
\* the usbDevice argument: POST /api/copy, the caller, passes USB_MOUNT_PATH
UsbDevice == "given"

IdleRun ==
  [pc |-> "idle",
   request |-> [files |-> <<>>, onDuplicate |-> Omitted],
   features |-> [copyHistory |-> FALSE, smartOrganization |-> FALSE,
                 contentDuplicates |-> FALSE, scheduledActions |-> FALSE,
                 autoDeleteAfterCopy |-> FALSE],
   onDuplicate |-> "skip", totalFiles |-> 0, totalBytes |-> 0,
   j |-> 1, i |-> 1, progress |-> InitProgress(0, 0, 0),
   destPath |-> NoPath, sourceStats |-> 0, destExists |-> FALSE,
   historyFiles |-> <<>>, errorMessage |-> Null,
   usbDevice |-> UsbDevice,
   errKind |-> Null, ops |-> {}]

Files(rec) == rec.request.files

CurrentTask(rec) == Files(rec)[rec.i]

\* the generator is parked at a yield; the action that continues at `resume`
\* is the consumer's next() together with the code it lets run
Yielded(rec, resume) == [rec EXCEPT !.pc = resume]

\* a finished task: the loop goes on with the next file
NextTask(rec) == Yielded([rec EXCEPT !.i = @ + 1], "loop")

\* variant: the error is noted and the loop goes on with the next file
Thrown_Continue(rec, kind) ==
  [NextTask(rec) EXCEPT !.errKind = kind, !.errorMessage = ErrorMessage(kind)]

\* a rejected await inside the try block
Thrown(rec, kind) ==
  [rec EXCEPT !.pc = "catch", !.errKind = kind, !.errorMessage = ErrorMessage(kind)]

\* bookkeeping: which operations were performed for which task
Did(rec, kind) == [rec EXCEPT !.ops = @ \cup {<<rec.i, kind>>}]

\* variant: the generator runs on without handing the snapshot out
Emit_RunOn(r, snap) == emitted' = emitted

\* yield snap: the snapshot is handed to the consumer
Emit(r, snap) == emitted' = [emitted EXCEPT ![r] = Append(@, snap)]

Upd(r, rec) == run' = [run EXCEPT ![r] = rec]

\* variant: no return at the end of the catch block
AfterErrorNext_NoReturn == "loop"

\* where the generator goes after the error snapshot's history save: return
AfterErrorNext == "done"

\* the response of POST /api/copy before its loop is over
Unsent == [extra |-> <<>>, ended |-> FALSE]

(* ------------------------------ actions -------------------------------- *)
\* an exception leaves the generator: the consumer's next() rejects
GeneratorThrew(rec) ==
  [rec EXCEPT !.pc = "threw", !.errKind = "config", !.errorMessage = ErrorMessage("config")]

\* addHistoryEntry is called: features.copyHistory && usbDevice
SavesHistory(rec) == rec.features.copyHistory /\ rec.usbDevice = "given"

\* the progress object is built and the first snapshot is yielded
FirstYield(r, rec) ==
  LET progress == InitProgress(r, rec.totalFiles, rec.totalBytes)
  IN /\ Upd(r, Yielded([rec EXCEPT !.progress = progress, !.i = 1], "loop"))
     /\ Emit(r, FirstSnapshot(progress))

\* executeCopy(request, usbDevice, ...), called by the consumer's first
\* next(): the locals set before the pre-pass; the features are what
\* loadRules() returns
StartWith(r, configs) ==
  /\ run[r].pc = "idle"
  /\ IF cfgDir = "blocked"
     THEN \* loadRules: mkdirSync(configDir) throws out of the generator
          /\ Upd(r, GeneratorThrew(run[r]))
          /\ UNCHANGED <<emitted, cfgDir>>
     ELSE /\ \E cfg \in configs :
               LET rec == [run[r] EXCEPT !.pc = "prepass", !.features = cfg,
                                         !.onDuplicate = OnDuplicate(run[r].request),
                                         !.totalFiles = Len(run[r].request.files),
                                         !.totalBytes = 0, !.j = 1]
               IN IF Len(Files(rec)) = 0
                  THEN FirstYield(r, rec)
                  ELSE Upd(r, rec) /\ UNCHANGED emitted
          /\ cfgDir' = "present"
  /\ UNCHANGED <<srcFs, dstFs, dirs, blocked, history, plugged>>

Start(r) == StartWith(r, FeatureConfigs)

StartActions(r) == StartWith(r, ActionConfigs)

\* variant: a source that cannot be read in the pre-pass ends the run
PrePassStat_Abort(r) ==
  LET s == Files(run[r])[run[r].j].sourcePath
      rec == [run[r] EXCEPT !.j = @ + 1,
                            !.totalBytes = IF StatOk(s) THEN @ + Size(srcFs[s]) ELSE @]
  IN /\ run[r].pc = "prepass"
     /\ IF ~StatOk(s)
        THEN Upd(r, Thrown(run[r], "stat")) /\ UNCHANGED emitted
        ELSE IF rec.j > Len(Files(rec))
             THEN FirstYield(r, rec)
             ELSE Upd(r, rec) /\ UNCHANGED emitted
     /\ UNCHANGED <<srcFs, dstFs, dirs, blocked, history, plugged>>

\* pre-pass, one await stat per file: sources that cannot be read add
\* nothing; after the last one the first snapshot follows in the same turn
PrePassStat(r) ==
  LET s == Files(run[r])[run[r].j].sourcePath
      rec == [run[r] EXCEPT !.j = @ + 1,
                            !.totalBytes = IF StatOk(s) THEN @ + Size(srcFs[s]) ELSE @]
  IN /\ run[r].pc = "prepass"
     /\ IF rec.j > Len(Files(rec))
        THEN FirstYield(r, rec)
        ELSE Upd(r, rec) /\ UNCHANGED emitted
     /\ UNCHANGED <<srcFs, dstFs, dirs, blocked, history, plugged>>

\* top of the loop body: currentFile is set and a snapshot is yielded
TaskBegin(r) ==
  LET rec == run[r]
      progress == SetCurrentFile(rec.progress, CurrentTask(rec).sourcePath)
  IN /\ rec.pc = "loop"
     /\ rec.i <= Len(Files(rec))
     /\ Upd(r, Yielded([rec EXCEPT !.progress = progress], "stat"))
     /\ Emit(r, progress)
     /\ UNCHANGED <<srcFs, dstFs, dirs, blocked, history, plugged>>

\* after the loop: the completed snapshot
Complete(r) ==
  LET rec == run[r]
      progress == CompleteProgress(rec.progress)
  IN /\ rec.pc = "loop"
     /\ rec.i > Len(Files(rec))
     /\ Upd(r, Yielded([rec EXCEPT !.progress = progress], "afterComplete"))
     /\ Emit(r, progress)
     /\ UNCHANGED <<srcFs, dstFs, dirs, blocked, history, plugged>>

\* destPath = file.destinationPath; sourceStats = await stat(file.sourcePath)
TaskStat(r) ==
  LET rec == Did([run[r] EXCEPT !.destPath = CurrentTask(run[r]).destinationPath], "stat")
      s == CurrentTask(rec).sourcePath
  IN /\ run[r].pc = "stat"
     /\ IF ~StatOk(s)
        THEN Upd(r, Thrown(rec, "stat"))
        ELSE Upd(r, [rec EXCEPT !.sourceStats = Size(srcFs[s]),
                                !.pc = IF rec.features.smartOrganization
                                       THEN "organize" ELSE "exists"])
     /\ UNCHANGED <<srcFs, dstFs, dirs, blocked, emitted, history, plugged>>

\* destPath = await getOrganizedPath(...), which stats the source again
Organize(r) ==
  LET rec == Did(run[r], "orgstat")
      s == CurrentTask(rec).sourcePath
  IN /\ run[r].pc = "organize"
     /\ IF ~StatOk(s)
        THEN Upd(r, Thrown(rec, "stat"))
        ELSE Upd(r, [rec EXCEPT !.destPath = GetOrganizedPath(s, Dirname(rec.destPath)),
                                !.pc = "exists"])
     /\ UNCHANGED <<srcFs, dstFs, dirs, blocked, emitted, history, plugged>>

\* a skipped task: credit, history record, snapshot, continue
SkipTask(r, rec, hash) ==
  LET t == CurrentTask(rec)
      done == [rec EXCEPT !.historyFiles =
                 IF rec.features.copyHistory
                 THEN Append(@, HistoryFile(t.sourcePath, rec.destPath, rec.sourceStats,
                                            "skipped", hash, Null))
                 ELSE @]
  IN /\ Upd(r, NextTask(Did(done, "skipped")))
     /\ Emit(r, done.progress)
     /\ UNCHANGED <<srcFs, dstFs, dirs, blocked, history, plugged>>

\* the duplicate policy switch, then copyFile up to its await: rename probe,
\* mkdirSync, the streams are created (the file itself is opened later)
PolicyAndCopyStart(r, rec, destExists, isContentDuplicate) ==
  IF destExists /\ ~isContentDuplicate /\ rec.onDuplicate = "skip"
  THEN SkipTask(r, [rec EXCEPT !.progress = CreditSkipped(@, rec.sourceStats)], NoHash)
  ELSE LET rename == destExists /\ ~isContentDuplicate /\ rec.onDuplicate = "rename"
           destPath == IF rename THEN GetUniqueDestPath(dstFs, rec.destPath) ELSE rec.destPath
           destDir == Dirname(destPath)
           rec2 == [(IF rename THEN Did(rec, "renamed") ELSE rec) EXCEPT !.destPath = destPath]
       IN /\ IF MkdirNeeded(destDir) /\ MkdirFails(destDir)
             THEN /\ Upd(r, Thrown(Did(rec2, "mkdir"), "mkdir"))
                  /\ dirs' = dirs
             ELSE /\ Upd(r, [Did(rec2, "write") EXCEPT !.pc = "piping"])
                  /\ dirs' = dirs \cup Ancestors(destDir)
          /\ UNCHANGED <<srcFs, dstFs, blocked, emitted, history, plugged>>

\* destExists = existsSync(destPath); without the content stage the policy
\* switch and copyFile follow in the same turn
ExistsCheck(r) ==
  LET destExists == ExistsSync(dstFs, run[r].destPath)
      rec == [Did(run[r], IF destExists THEN "destExisted" ELSE "destFree")
                EXCEPT !.destExists = destExists]
  IN /\ run[r].pc = "exists"
     /\ IF rec.features.contentDuplicates /\ destExists
        THEN /\ Upd(r, [rec EXCEPT !.pc = "dupCheck"])
             /\ UNCHANGED <<srcFs, dstFs, dirs, blocked, emitted, history, plugged>>
        ELSE PolicyAndCopyStart(r, rec, destExists, FALSE)

\* variant: a destination with other content does not count as existing
DupCheck_DifferentIsFree(r) ==
  LET rec == Did(run[r], "dupcheck")
      isContentDuplicate == IsDuplicate(CurrentTask(rec).sourcePath, rec.destPath)
      credited == [rec EXCEPT !.progress = CreditSkipped(@, rec.sourceStats)]
  IN /\ run[r].pc = "dupCheck"
     /\ IF isContentDuplicate /\ rec.onDuplicate = "skip"
        THEN IF rec.features.copyHistory
             THEN /\ Upd(r, [credited EXCEPT !.pc = "skipHash"])
                  /\ UNCHANGED <<srcFs, dstFs, dirs, blocked, emitted, history, plugged>>
             ELSE SkipTask(r, credited, NoHash)
        ELSE PolicyAndCopyStart(r, rec, isContentDuplicate, isContentDuplicate)

\* isContentDuplicate = await isDuplicate(source, destPath)
DupCheck(r) ==
  LET rec == Did(run[r], "dupcheck")
      isContentDuplicate == IsDuplicate(CurrentTask(rec).sourcePath, rec.destPath)
      credited == [rec EXCEPT !.progress = CreditSkipped(@, rec.sourceStats)]
  IN /\ run[r].pc = "dupCheck"
     /\ IF isContentDuplicate /\ rec.onDuplicate = "skip"
        THEN IF rec.features.copyHistory
             THEN /\ Upd(r, [credited EXCEPT !.pc = "skipHash"])
                  /\ UNCHANGED <<srcFs, dstFs, dirs, blocked, emitted, history, plugged>>
             ELSE SkipTask(r, credited, NoHash)
        ELSE PolicyAndCopyStart(r, rec, rec.destExists, isContentDuplicate)

\* content-duplicate skip with history: fileHash = await calculateFileHash(source)
SkipHash(r) ==
  LET rec == Did(run[r], "hash")
      s == CurrentTask(rec).sourcePath
  IN /\ run[r].pc = "skipHash"
     /\ IF ~StatOk(s)
        THEN /\ Upd(r, Thrown(rec, "hash"))
             /\ UNCHANGED <<srcFs, dstFs, dirs, blocked, emitted, history, plugged>>
        ELSE SkipTask(r, rec, CalculateFileHash(srcFs[s]))

\* a copied task: credit, history record, snapshot, next file
FinishCopied(r, rec, hash) ==
  LET t == CurrentTask(rec)
      done == [rec EXCEPT !.progress = CreditCopied(@, rec.sourceStats),
                          !.historyFiles =
                             IF rec.features.copyHistory
                             THEN Append(@, HistoryFile(t.sourcePath, rec.destPath,
                                                        rec.sourceStats, "copied", hash, Null))
                             ELSE @]
  IN /\ Upd(r, NextTask(done))
     /\ Emit(r, done.progress)

\* variant: the write stream is opened exclusively, so a destination that
\* appeared after the existence check makes the copy fail
Piping_Exclusive(r) ==
  LET rec == run[r]
      s == CurrentTask(rec).sourcePath
  IN /\ rec.pc = "piping"
     /\ IF ~StatOk(s) \/ (<<rec.i, "destFree">> \in rec.ops /\ ExistsSync(dstFs, rec.destPath))
        THEN /\ Upd(r, Thrown(rec, "copy"))
             /\ UNCHANGED <<srcFs, dstFs, dirs, blocked, emitted, history, plugged>>
        ELSE /\ dstFs' = [dstFs EXCEPT ![rec.destPath] = srcFs[s]]
             /\ FinishCopied(r, Did(rec, "copied"), NoHash)
             /\ UNCHANGED <<srcFs, dirs, blocked, history, plugged>>

\* await pipeline(readStream, writeStream) settles
Piping(r) ==
  LET rec == run[r]
      s == CurrentTask(rec).sourcePath
  IN /\ rec.pc = "piping"
     /\ IF ~StatOk(s)
        THEN \* the source cannot be opened; the destination may already have
             \* been created or truncated by the write stream
             /\ \E opened \in BOOLEAN :
                  dstFs' = IF opened THEN [dstFs EXCEPT ![rec.destPath] = <<0, 1>>] ELSE dstFs
             /\ Upd(r, Thrown(rec, "copy"))
             /\ UNCHANGED <<srcFs, dirs, blocked, emitted, history, plugged>>
        ELSE /\ dstFs' = [dstFs EXCEPT ![rec.destPath] = srcFs[s]]
             /\ IF rec.features.copyHistory /\ rec.features.contentDuplicates
                THEN /\ Upd(r, [Did(rec, "copied") EXCEPT !.pc = "copyHash"])
                     /\ UNCHANGED emitted
                ELSE FinishCopied(r, Did(rec, "copied"), NoHash)
             /\ UNCHANGED <<srcFs, dirs, blocked, history, plugged>>

\* after the copy, with history and the content stage: hash the source
CopyHash(r) ==
  LET rec == Did(run[r], "hash")
      s == CurrentTask(rec).sourcePath
  IN /\ run[r].pc = "copyHash"
     /\ IF ~StatOk(s)
        THEN /\ Upd(r, Thrown(rec, "hash"))
             /\ UNCHANGED emitted
        ELSE FinishCopied(r, rec, CalculateFileHash(srcFs[s]))
     /\ UNCHANGED <<srcFs, dstFs, dirs, blocked, history, plugged>>

\* the catch block up to its yield: history record, status error, snapshot
Catch(r) ==
  LET rec == run[r]
      t == CurrentTask(rec)
      size == IF StatOk(t.sourcePath) THEN Size(srcFs[t.sourcePath]) ELSE 0
      failed == [rec EXCEPT !.progress = FailProgress(@, rec.errorMessage),
                            !.historyFiles =
                               IF rec.features.copyHistory
                               THEN Append(@, HistoryFile(t.sourcePath, t.destinationPath, size,
                                                          "error", NoHash, rec.errorMessage))
                               ELSE @]
  IN /\ rec.pc = "catch"
     /\ Upd(r, Yielded(failed, "afterError"))
     /\ Emit(r, failed.progress)
     /\ UNCHANGED <<srcFs, dstFs, dirs, blocked, history, plugged>>

\* variant: a run that failed leaves no history entry
AfterError_NoHistory(r) ==
  /\ run[r].pc = "afterError"
  /\ Upd(r, [run[r] EXCEPT !.pc = AfterErrorNext])
  /\ UNCHANGED <<srcFs, dstFs, dirs, blocked, emitted, plugged, history, cfgDir>>

\* after the error snapshot: the history entry is saved, then return
AfterError(r) ==
  LET rec == run[r]
  IN /\ rec.pc = "afterError"
     /\ IF SavesHistory(rec) /\ cfgDir = "blocked"
        THEN \* saveHistory: mkdirSync(configDir) is outside its try block
             /\ Upd(r, GeneratorThrew(rec))
             /\ UNCHANGED <<history, cfgDir>>
        ELSE /\ history' = IF SavesHistory(rec)
                           THEN AddHistoryEntry(history,
                                                HistoryEntry(rec, "error", rec.errorMessage))
                           ELSE history
             /\ cfgDir' = IF SavesHistory(rec) THEN "present" ELSE cfgDir
             /\ Upd(r, [rec EXCEPT !.pc = AfterErrorNext])
     /\ UNCHANGED <<srcFs, dstFs, dirs, blocked, emitted, plugged>>

\* after the completed snapshot: the history entry is saved; scheduled
\* actions follow when features.scheduledActions && config.scheduledActions
AfterComplete(r) ==
  LET rec == run[r]
  IN /\ rec.pc = "afterComplete"
     /\ IF SavesHistory(rec) /\ cfgDir = "blocked"
        THEN /\ Upd(r, GeneratorThrew(rec))
             /\ UNCHANGED <<history, cfgDir>>
        ELSE /\ history' = IF SavesHistory(rec)
                           THEN AddHistoryEntry(history, HistoryEntry(rec, "completed", Null))
                           ELSE history
             /\ cfgDir' = IF SavesHistory(rec) THEN "present" ELSE cfgDir
             /\ Upd(r, [rec EXCEPT !.pc = IF rec.features.scheduledActions
                                          THEN "scheduled" ELSE "done"])
     /\ UNCHANGED <<srcFs, dstFs, dirs, blocked, emitted, plugged>>

\* variant: the sources of all recorded tasks are handed over
CopiedSourcePaths_AllRecords(rec) ==
  {rec.historyFiles[n].sourcePath : n \in 1..Len(rec.historyFiles)}

\* the source paths handed to executeScheduledActions
CopiedSourcePaths(rec) ==
  {rec.historyFiles[n].sourcePath :
     n \in {m \in 1..Len(rec.historyFiles) : rec.historyFiles[m].status = "copied"}}

\* executeScheduledActions: auto-delete unlinks the copied sources
ScheduledActions(r) ==
  LET rec == run[r]
  IN /\ rec.pc = "scheduled"
     /\ srcFs' = IF rec.features.autoDeleteAfterCopy
                 THEN [s \in Sources |->
                         IF s \in CopiedSourcePaths(rec) THEN Missing ELSE srcFs[s]]
                 ELSE srcFs
     /\ Upd(r, [rec EXCEPT !.pc = "done"])
     /\ UNCHANGED <<dstFs, dirs, blocked, emitted, history, plugged>>

\* variant: the route's catch ends the response without writing an event
CaughtEvents_Silent(message) == <<>>

\* what the catch of POST /api/copy writes: {status: 'error', error: message}
CaughtEvents(message) == <<[status |-> "error", error |-> message]>>

\* POST /api/copy, catch: the generator threw, an error event is written
RouteCatch(r) ==
  /\ run[r].pc = "threw"
  /\ sse' = [sse EXCEPT ![r].extra = @ \o CaughtEvents(run[r].errorMessage)]
  /\ Upd(r, [run[r] EXCEPT !.pc = "done"])
  /\ UNCHANGED <<srcFs, dstFs, dirs, blocked, emitted, history, plugged, cfgDir>>

\* POST /api/copy, after the loop or the catch: reply.raw.end()
RouteEnd(r) ==
  /\ run[r].pc = "done"
  /\ ~sse[r].ended
  /\ sse' = [sse EXCEPT ![r].ended = TRUE]
  /\ UNCHANGED <<srcFs, dstFs, dirs, blocked, run, emitted, history, plugged, cfgDir>>

\* the configuration directory is removed while a run is about to save its
\* history entry; it can be created again, or not
LoseConfigDir ==
  /\ cfgDir = "present"
  /\ \E r \in Runs : run[r].pc \in {"afterComplete", "afterError"} /\ SavesHistory(run[r])
  /\ cfgDir' \in {"absent", "blocked"}
  /\ UNCHANGED <<srcFs, dstFs, dirs, blocked, run, emitted, history, plugged, sse>>

\* the source the run's next step reads, if any
ReadsNext(rec) ==
  IF rec.pc \in {"stat", "organize", "dupCheck", "skipHash", "piping", "copyHash", "catch"}
  THEN CurrentTask(rec).sourcePath
  ELSE Null

\* the source whose size or bytes the run's next step uses, if any
UsesNext(rec) ==
  IF rec.pc \in {"stat", "dupCheck", "piping"} THEN CurrentTask(rec).sourcePath ELSE Null

\* The USB drive changes under the run, after the pre-pass (a change before
\* it is another initial drive).  Only changes right before a read are
\* taken: a change made earlier is seen by the run exactly as the same
\* change made then.
\* the drive is pulled: no source can be read any more
Unplug ==
  /\ plugged
  /\ \E r \in Runs : ReadsNext(run[r]) # Null
  /\ plugged' = FALSE
  /\ srcFs' = [s \in Sources |-> Missing]
  /\ UNCHANGED <<dstFs, dirs, blocked, run, emitted, history>>

\* a source file is still being written by another program: it grows
Grow ==
  /\ plugged
  /\ \E r \in Runs :
       LET s == UsesNext(run[r])
       IN /\ s # Null
          /\ srcFs[s] # Missing
          /\ Size(srcFs[s]) < MaxSize
          /\ srcFs' = [srcFs EXCEPT ![s] = <<MaxSize, 1>>]
  /\ UNCHANGED <<dstFs, dirs, blocked, run, emitted, history, plugged>>

(* ---------------------------- rule matching ---------------------------- *)
\* A name is a sequence of characters, a path a sequence of names; a glob
\* is a sequence of segments, each a sequence of characters and "*", or the
\* globstar segment.
Globstar == <<"**">>

\* nocase: true
Lower(c) == IF c = "P" THEN "p" ELSE IF c = "J" THEN "j" ELSE c

\* one path segment against one glob segment: "*" takes any run of characters
RECURSIVE Wild(_, _)
Wild(pat, name) ==
  IF pat = <<>> THEN name = <<>>
  ELSE IF Head(pat) = "*"
       THEN Wild(Tail(pat), name) \/ (name # <<>> /\ Wild(pat, Tail(name)))
       ELSE name # <<>> /\ Lower(Head(pat)) = Lower(Head(name)) /\ Wild(Tail(pat), Tail(name))

\* the dot option: without it a leading "." is matched only by a literal "."
DotOk(pat, name, dot) == dot \/ Head(name) # "." \/ Head(pat) = "."

SegMatch(pat, name, dot) == DotOk(pat, name, dot) /\ Wild(pat, name)

\* picomatch(glob, {nocase: true, dot})(path): the whole path is matched;
\* a globstar takes any number of segments, none included
RECURSIVE IsMatch(_, _, _)
IsMatch(glob, path, dot) ==
  IF glob = <<>> THEN path = <<>>
  ELSE IF Head(glob) = Globstar
       THEN \/ IsMatch(Tail(glob), path, dot)
            \/ /\ path # <<>>
               /\ DotOk(Globstar, Head(path), dot)
               /\ IsMatch(glob, Tail(path), dot)
       ELSE /\ path # <<>>
            /\ SegMatch(Head(glob), Head(path), dot)
            /\ IsMatch(Tail(glob), Tail(path), dot)

\* the globs of the rules: **/*.j, d/**, *.j, **/*
Globs ==
  { <<Globstar, <<"*", ".", "j">>>>,
    <<<<"d">>, Globstar>>,
    <<<<"*", ".", "j">>>>,
    <<Globstar, <<"*">>>> }

\* relative paths of scanned files: p.j, P.J, n.t, d/p.j, d/n.t, .h.j
RelativePaths ==
  { <<<<"p", ".", "j">>>>, <<<<"P", ".", "J">>>>, <<<<"n", ".", "t">>>>,
    <<<<"d">>, <<"p", ".", "j">>>>, <<<<"d">>, <<"n", ".", "t">>>>,
    <<<<".", "h", ".", "j">>>> }

\* each glob sends its files to a folder of its own, written with ~/
DestinationOf(glob) == <<"~", glob>>

\* expandPath: ~/x is put under the home directory
ExpandPath(path) == IF path[1] = "~" THEN <<"home", path[2]>> ELSE path

\* a CopyRule after RuleSchema: enabled is always a boolean
Rule(glob, enabled) == [match |-> glob, destination |-> DestinationOf(glob), enabled |-> enabled]

RulePool == {Rule(g, e) : g \in Globs, e \in BOOLEAN}

MatchedRule(rule) == [rule |-> rule, destination |-> ExpandPath(rule.destination)]

\* matchFile returning null
NoMatch == [matched |-> Null]

\* no change to the rules has been saved, no load has taken place
NoEdit == <<"none", 0, 0>>

\* the pattern picomatch does not compile: the empty string (TypeError)
EmptyGlob == <<>>

Compiles(glob) == glob # EmptyGlob

\* matchFile left by the exception of picomatch
MatchThrew == [thrown |-> "TypeError: Expected pattern to be a non-empty string"]

\* a match value of rules.yaml that is no string
NotAString == <<<<"#number">>>>

\* what rules.yaml may hold: well-formed and malformed patterns, and a
\* value that is no string
LoadPool ==
  {Rule(g, e) : g \in {EmptyGlob, NotAString, <<<<"*", ".", "j">>>>, <<Globstar, <<"*">>>>},
                e \in BOOLEAN}

\* ConfigSchema.parse succeeds: RuleSchema wants match to be a string
ConfigSchemaParse(parsed) == \A k \in 1..Len(parsed) : parsed[k].match # NotAString

\* loadRules on an existing rules.yaml: the validated rules, or those of
\* loadDefaultConfig (none) when validation throws
LoadRules ==
  /\ lastEdit = NoEdit
  /\ \E parsed \in {q \in SeqsUpTo(LoadPool, MaxRules) :
                       \A m, n \in 1..Len(q) : q[m].match = q[n].match => m = n} :
       rules' = IF ConfigSchemaParse(parsed) THEN parsed ELSE <<>>
  /\ lastEdit' = <<"load", 0, 0>>
  /\ UNCHANGED <<relativePath, matchedRule>>

\* variant: the loop returns after the first enabled rule, match or not
RECURSIVE MatchFile_FirstEnabledOnly(_, _)
MatchFile_FirstEnabledOnly(path, rs) ==
  IF rs = <<>> THEN NoMatch
  ELSE IF ~Head(rs).enabled THEN MatchFile_FirstEnabledOnly(path, Tail(rs))
  ELSE IF IsMatch(Head(rs).match, path, FALSE) THEN MatchedRule(Head(rs))
  ELSE NoMatch

\* variant: the enabled flag is not looked at
RECURSIVE MatchFile_IgnoreEnabled(_, _)
MatchFile_IgnoreEnabled(path, rs) ==
  IF rs = <<>> THEN NoMatch
  ELSE IF IsMatch(Head(rs).match, path, FALSE) THEN MatchedRule(Head(rs))
  ELSE MatchFile_IgnoreEnabled(path, Tail(rs))

\* matchFile: the rules in list order, disabled ones passed over; the glob
\* of each enabled rule reached is compiled on the spot, for every file
RECURSIVE MatchFile(_, _)
MatchFile(path, rs) ==
  IF rs = <<>> THEN NoMatch
  ELSE IF ~Head(rs).enabled THEN MatchFile(path, Tail(rs))
  ELSE IF ~Compiles(Head(rs).match) THEN MatchThrew
  ELSE IF IsMatch(Head(rs).match, path, FALSE) THEN MatchedRule(Head(rs))
  ELSE MatchFile(path, Tail(rs))

\* the rules list with the rules at positions m and n exchanged
Swap(rs, m, n) ==
  [k \in 1..Len(rs) |-> IF k = m THEN rs[n] ELSE IF k = n THEN rs[m] ELSE rs[k]]

\* a file of the scan is matched against the rules
Match ==
  /\ \E path \in RelativePaths :
       /\ relativePath' = path
       /\ matchedRule' = MatchFile(path, rules)
  /\ UNCHANGED <<rules, lastEdit>>

\* the settings page saves the rules with one rule's enabled flag flipped;
\* the file shown is matched again
ToggleRule ==
  /\ \E k \in 1..Len(rules) :
       /\ rules' = [rules EXCEPT ![k].enabled = ~@]
       /\ lastEdit' = <<"toggle", k, k>>
  /\ relativePath # <<>>
  /\ matchedRule' = MatchFile(relativePath, rules')
  /\ UNCHANGED relativePath

\* the settings page saves the rules with two rules dragged to each other's
\* place; the file shown is matched again
SwapRules ==
  /\ \E m, n \in 1..Len(rules) :
       /\ m < n
       /\ rules' = Swap(rules, m, n)
       /\ lastEdit' = <<"swap", m, n>>
  /\ relativePath # <<>>
  /\ matchedRule' = MatchFile(relativePath, rules')
  /\ UNCHANGED relativePath

(* ------------------------------- scanning ------------------------------ *)
\* names on the drive: $R ($RECYCLE.BIN), .D (.DS_Store), d, M (__MACOSX),
\* n.t, p.j
RecycleBin == <<"$", "R">>

DsStore == <<".", "D">>

MacOsx == <<"M">>

\* localeCompare on these names
NameRank(name) ==
  IF name = RecycleBin THEN 1
  ELSE IF name = DsStore THEN 2
  ELSE IF name = <<"d">> THEN 3
  ELSE IF name = MacOsx THEN 4
  ELSE IF name = <<"n", ".", "t">> THEN 5
  ELSE 6

\* the scanEntries every drive of the model has, and the ones it may have
FixedNodes ==
  { <<<<"p", ".", "j">>>>, <<<<"d">>>>, <<<<"d">>, DsStore>>, <<<<"d">>, <<"p", ".", "j">>>>,
    <<MacOsx>>, <<MacOsx, <<"p", ".", "j">>>> }

OptionalNodes == { {<<DsStore>>}, {<<RecycleBin>>}, {<<<<"d">>, MacOsx>>, <<<<"d">>, MacOsx, <<"n", ".", "t">>>>} }

Directories == {<<<<"d">>>>, <<MacOsx>>, <<RecycleBin>>, <<<<"d">>, MacOsx>>}

Drives ==
  { [p \in FixedNodes \cup UNION chosen |-> p \in Directories] : chosen \in SUBSET OptionalNodes }

ScanRoot == <<>>

\* exclusion patterns: .D, **/M/**, d/*.j
ExclusionPool == << <<DsStore>>, <<Globstar, MacOsx, Globstar>>, <<<<"d">>, <<"*", ".", "j">>>> >>

\* the sub-sequences of a sequence
RECURSIVE SubSeqs(_)
SubSeqs(q) ==
  IF q = <<>> THEN {<<>>}
  ELSE LET rest == SubSeqs(Tail(q)) IN rest \cup {<<Head(q)>> \o t : t \in rest}

\* variant: only the relative path is tested
RECURSIVE IsExcluded_PathOnly(_, _, _)
IsExcluded_PathOnly(relPath, fileName, excl) ==
  IF excl = <<>> THEN FALSE
  ELSE IsMatch(Head(excl), relPath, TRUE) \/ IsExcluded_PathOnly(relPath, fileName, Tail(excl))

\* isExcluded: some pattern matches the bare name or the relative path
RECURSIVE IsExcluded(_, _, _)
IsExcluded(relPath, fileName, excl) ==
  IF excl = <<>> THEN FALSE
  ELSE \/ IsMatch(Head(excl), <<fileName>>, TRUE)
       \/ IsMatch(Head(excl), relPath, TRUE)
       \/ IsExcluded(relPath, fileName, Tail(excl))

\* readdir(dirPath): the scanEntries directly below it
Items(tree, dirPath) ==
  {p \in DOMAIN tree : Len(p) = Len(dirPath) + 1 /\ SubSeq(p, 1, Len(dirPath)) = dirPath}

ItemName(p) == p[Len(p)]

\* a FileEntry; a file has no children
FileEntry(p, isDirectory, children) ==
  [name |-> ItemName(p), relativePath |-> p, isDirectory |-> isDirectory, children |-> children]

\* entries.sort: directories first, then by name
SortKey(e) == (IF e.isDirectory THEN 0 ELSE 10) + NameRank(e.name)

RECURSIVE SortEntries(_)
SortEntries(S) ==
  IF S = {} THEN <<>>
  ELSE LET first == CHOOSE e \in S : \A f \in S : SortKey(e) <= SortKey(f)
       IN <<first>> \o SortEntries(S \ {first})

\* the items the loop of scanDirectory goes past without an entry
Skipped(p, excl) == IsExcluded(p, ItemName(p), excl) \/ ItemName(p) = RecycleBin

\* variant: a stat failure on one item leaves the directory's listing empty
RECURSIVE ScanDirectory_EmptyOnFailure(_, _, _, _, _)
ScanDirectory_EmptyOnFailure(tree, dirPath, excl, noStat, noReaddir) ==
  IF dirPath \in noReaddir THEN <<>>
  ELSE IF \E p \in Items(tree, dirPath) : ~Skipped(p, excl) /\ p \in noStat THEN <<>>
  ELSE SortEntries(
         { FileEntry(p, tree[p],
                     IF tree[p]
                     THEN ScanDirectory_EmptyOnFailure(tree, p, excl, noStat, noReaddir)
                     ELSE <<>>) :
             p \in {q \in Items(tree, dirPath) : ~Skipped(q, excl)} })

\* scanDirectory(dirPath, basePath, exclusions) on a drive that does not
\* change during the scan
RECURSIVE ScanDirectory(_, _, _, _, _)
ScanDirectory(tree, dirPath, excl, noStat, noReaddir) ==
  IF dirPath \in noReaddir THEN <<>>
  ELSE SortEntries(
         { FileEntry(p, tree[p],
                     IF tree[p] THEN ScanDirectory(tree, p, excl, noStat, noReaddir) ELSE <<>>) :
             p \in {q \in Items(tree, dirPath) : ~Skipped(q, excl) /\ q \notin noStat} })

\* variant: a directory is pushed as well, before its files
RECURSIVE FlattenFiles_WithDirectories(_)
FlattenFiles_WithDirectories(entries) ==
  IF entries = <<>> THEN <<>>
  ELSE (IF Head(entries).isDirectory
        THEN <<Head(entries)>> \o FlattenFiles_WithDirectories(Head(entries).children)
        ELSE <<Head(entries)>>)
       \o FlattenFiles_WithDirectories(Tail(entries))

\* flattenFiles: the files of a directory entry in place of the entry, a
\* file entry as it is (scanDirectory gives every directory its children)
RECURSIVE FlattenFiles(_)
FlattenFiles(entries) ==
  IF entries = <<>> THEN <<>>
  ELSE (IF Head(entries).isDirectory
        THEN FlattenFiles(Head(entries).children)
        ELSE <<Head(entries)>>)
       \o FlattenFiles(Tail(entries))

\* no scan takes part
NoScan ==
  /\ drive = [p \in {} |-> FALSE]
  /\ statFails = {} /\ readdirFails = {}
  /\ exclusions = <<>>
  /\ scanEntries = <<>>

\* GET /api/files: scanDirectory(USB_MOUNT_PATH)
Scan ==
  /\ Len(scanEntries) = 0
  /\ scanEntries' = <<ScanDirectory(drive, ScanRoot, exclusions, statFails, readdirFails)>>
  /\ UNCHANGED <<drive, statFails, readdirFails, exclusions>>

\* applyRulesToFiles(entries): files = flattenFiles(entries)
Flatten ==
  /\ Len(scanEntries) = 1
  /\ scanEntries' = Append(scanEntries, FlattenFiles(scanEntries[1]))
  /\ UNCHANGED <<drive, statFails, readdirFails, exclusions>>

\* the drive is taken out and another one put in
Replug ==
  /\ Len(scanEntries) = 1
  /\ drive' \in Drives
  /\ scanEntries' = <<>>
  /\ UNCHANGED <<statFails, readdirFails, exclusions>>

(* ------------------------------- watcher ------------------------------- *)
\* the mount paths of the removable drives that may be plugged in
MountPaths == {"/media/A", "/media/B"}

\* the watcher after start: no server, no drive seen, no check under way
IdleWatcher ==
  [pc |-> "idle", serverProcess |-> Null, currentDrives |-> {}, newDrives |-> {}, checks |-> 0]

NoWatch == mounts = {} /\ watcher = IdleWatcher

\* The watcher with its child processes: checkForDrives may be called again
\* (poll timer, watch events) while a call is waiting at one of its awaits,
\* and a killed server exits some time after the SIGTERM.
\* serverProcess = null
NoProcess == 0

\* the calls of checkForDrives that can be under way at once
Calls == {1, 2}

IdleCall == [pc |-> "idle", newDrives |-> {}, remaining |-> <<>>]

\* the watcher after start, with the child processes alive, those of them
\* that were sent SIGTERM, and the number of processes spawned so far
IdleSupervisor ==
  [serverProcess |-> NoProcess, currentDrives |-> {}, calls |-> [c \in Calls |-> IdleCall],
   alive |-> {}, killed |-> {}, spawned |-> 0, checks |-> 0]

\* the orders in which new Map(drives...) may list the mounted drives
Orderings(S) == {q \in SeqsUpTo(S, Cardinality(S)) : Len(q) = Cardinality(S) /\ NoRepeat(q)}

\* the mount loop passes over the paths currentDrives has
RECURSIVE PassKnown(_, _)
PassKnown(paths, known) ==
  IF paths = <<>> THEN paths
  ELSE IF Head(paths) \in known THEN PassKnown(Tail(paths), known) ELSE paths

\* startServer up to its first await: nothing when serverProcess is set,
\* else spawn and keep the child in serverProcess
SpawnServer(w) ==
  IF w.serverProcess # NoProcess THEN w
  ELSE [w EXCEPT !.serverProcess = w.spawned + 1, !.spawned = @ + 1,
                 !.alive = @ \cup {w.spawned + 1}]

\* stopServer: SIGTERM to the child in serverProcess, serverProcess = null
KillServer(w) ==
  IF w.serverProcess = NoProcess THEN w
  ELSE [w EXCEPT !.killed = @ \cup {w.serverProcess}, !.serverProcess = NoProcess]

\* checkForDrives from where it stands to its next await: the mount loop up
\* to the next startServer, or, the loop over, the unmount loop and
\* currentDrives = newDrives
ContinueCheck(w, c) ==
  LET call == w.calls[c]
      rest == PassKnown(call.remaining, w.currentDrives)
  IN IF rest = <<>>
     THEN [(IF w.currentDrives \ call.newDrives # {} THEN KillServer(w) ELSE w)
             EXCEPT !.currentDrives = call.newDrives, !.calls[c] = IdleCall]
     ELSE [SpawnServer(w) EXCEPT !.calls[c].remaining = Tail(rest), !.calls[c].pc = "starting"]

\* checkForDrives is called: await getRemovableDrives()
CheckForDrives(c) ==
  /\ watcher.calls[c].pc = "idle"
  /\ watcher.checks < MaxChecks
  /\ watcher' = [watcher EXCEPT !.calls[c].pc = "listing", !.checks = @ + 1]
  /\ UNCHANGED mounts

\* getRemovableDrives resolves with the drives mounted now
DrivesListed(c) ==
  /\ watcher.calls[c].pc = "listing"
  /\ \E order \in Orderings(mounts) :
       watcher' = ContinueCheck([watcher EXCEPT !.calls[c].newDrives = mounts,
                                                !.calls[c].remaining = order], c)
  /\ UNCHANGED mounts

\* await startServer(path) resolves
ServerStarted(c) ==
  /\ watcher.calls[c].pc = "starting"
  /\ watcher' = ContinueCheck(watcher, c)
  /\ UNCHANGED mounts

\* a child that was sent SIGTERM exits; its 'exit' handler sets
\* serverProcess = null
ServerExit ==
  /\ \E p \in watcher.killed :
       watcher' = [watcher EXCEPT !.alive = @ \ {p}, !.killed = @ \ {p},
                                  !.serverProcess = NoProcess]
  /\ UNCHANGED mounts

(* ------------------------- web UI and its routes ------------------------ *)
\* no preview request, no UI and no stream reader take part
NoWeb == preview = <<>> /\ ui = <<>> /\ reader = <<>>

\* no run is repeated
NoTwin == twin = <<>>

\* GET /api/preview.  An absolute path is a sequence of segments, a segment
\* a sequence of characters; the server compares paths as strings.
\* USB_MOUNT_PATH is /m/u; next to it lie /m/u2 and /m/f
DotDot == <<".", ".">>

Segments == {<<"m">>, <<"u">>, <<"u", "2">>, <<"f">>, DotDot}

UsbMountPath == <<<<"m">>, <<"u">>>>

\* the paths a request may carry: up to MaxDepth segments, or none at all
\* (the empty string)
QueryPaths == SeqsUpTo(Segments, MaxDepth)

\* the files and the directories on the machine
DiskFiles ==
  { <<<<"m">>, <<"u">>, <<"f">>>>, <<<<"m">>, <<"u">>, <<"u", "2">>, <<"f">>>>,
    <<<<"m">>, <<"u", "2">>, <<"f">>>>, <<<<"m">>, <<"f">>>> }

DiskDirs == {<<>>, <<<<"m">>>>, <<<<"m">>, <<"u">>>>, <<<<"m">>, <<"u">>, <<"u", "2">>>>,
             <<<<"m">>, <<"u", "2">>>>}

\* path.resolve on an absolute path: ".." drops the segment before it
RECURSIVE ResolveOnto(_, _)
ResolveOnto(done, rest) ==
  IF rest = <<>> THEN done
  ELSE IF Head(rest) = DotDot
       THEN ResolveOnto(IF done = <<>> THEN done ELSE SubSeq(done, 1, Len(done) - 1), Tail(rest))
       ELSE ResolveOnto(Append(done, Head(rest)), Tail(rest))

Resolve(path) == ResolveOnto(<<>>, path)

\* the resolved path as the string the server holds: /seg/seg, "/" for the root
RECURSIVE Joined(_)
Joined(path) == IF path = <<>> THEN <<>> ELSE <<"/">> \o Head(path) \o Joined(Tail(path))

PathString(path) == IF path = <<>> THEN <<"/">> ELSE Joined(path)

\* String.prototype.startsWith
StartsWith(str, prefix) ==
  Len(prefix) <= Len(str) /\ SubSeq(str, 1, Len(prefix)) = prefix

Reply(code, sent) == [code |-> code, sent |-> sent]

\* nothing of the disk is sent with the reply
Nothing == <<<<"#none">>>>

\* the handler of GET /api/preview for one query
Preview(path) ==
  LET resolvedPath == Resolve(path)
      resolvedMountPath == Resolve(UsbMountPath)
  IN IF path = <<>> THEN Reply(400, Nothing)
     ELSE IF ~StartsWith(PathString(resolvedPath), PathString(resolvedMountPath))
          THEN Reply(403, Nothing)
     ELSE IF resolvedPath \notin DiskFiles \cup DiskDirs THEN Reply(404, Nothing)
     ELSE IF resolvedPath \in DiskDirs THEN Reply(500, Nothing)
     ELSE Reply(200, resolvedPath)

\* a request GET /api/preview?path=... is answered
GetPreview ==
  /\ preview = <<>>
  /\ \E path \in QueryPaths : preview' = <<path, Preview(path)>>
  /\ UNCHANGED <<ui, reader>>

\* a drive is plugged in or pulled
Mount ==
  /\ \E d \in MountPaths \ mounts : mounts' = mounts \cup {d}
  /\ UNCHANGED watcher

Unmount ==
  /\ \E d \in mounts : mounts' = mounts \ {d}
  /\ UNCHANGED watcher

\* checkForDrives is called (poll timer or a watch event) and
\* getRemovableDrives resolves with the drives mounted now
PollDrives ==
  /\ watcher.pc = "idle"
  /\ watcher.checks < MaxChecks
  /\ watcher' = [watcher EXCEPT !.pc = "polled", !.newDrives = mounts]
  /\ UNCHANGED mounts

\* startServer: nothing is done when a server process exists
StartServer(serverProcess, mountPath) ==
  IF serverProcess # Null THEN serverProcess ELSE mountPath

\* the serverProcess after startServer was called for each of the paths
\* (one path per call of the loop; with no server running the first path
\* of the loop gets it)
RECURSIVE StartServers(_, _)
StartServers(serverProcess, paths) ==
  IF paths = {} THEN {serverProcess}
  ELSE UNION {StartServers(StartServer(serverProcess, d), paths \ {d}) : d \in paths}

\* stopServer: the server process, if any, is killed
StopServer(serverProcess) == Null

\* the rest of checkForDrives: startServer for every newly mounted drive,
\* then stopServer for every drive no longer mounted, then currentDrives
\* is replaced
ApplyDrives ==
  /\ watcher.pc = "polled"
  /\ \E started \in StartServers(watcher.serverProcess,
                                 watcher.newDrives \ watcher.currentDrives) :
       watcher' = [watcher EXCEPT
                     !.pc = "idle",
                     !.serverProcess = IF watcher.currentDrives \ watcher.newDrives # {}
                                       THEN StopServer(started) ELSE started,
                     !.currentDrives = watcher.newDrives,
                     !.checks = @ + 1]
  /\ UNCHANGED mounts

(* ------------------------------ Init / Next ----------------------------- *)
\* no rule matching takes part in a copy run
NoRules == rules = <<>> /\ relativePath = <<>> /\ matchedRule = NoMatch /\ lastEdit = NoEdit

\* the destination disk before the run: empty, or out/a (and out/a_1) exist
Disk(a, a1) ==
  [p \in DestPaths |->
     IF p = Path(OutDir, "a", 0) THEN a
     ELSE IF p = Path(OutDir, "a", 1) THEN a1 ELSE Missing]

InitDisks ==
  { [fs |-> Disk(Missing, Missing), dirs |-> {}, blocked |-> {DatedDir}],
    [fs |-> Disk(<<MaxSize, 1>>, Missing), dirs |-> {OutDir}, blocked |-> {}],
    [fs |-> Disk(<<MaxSize, 2>>, <<MaxSize, 2>>), dirs |-> {OutDir}, blocked |-> {}] }

SourcesOf(files) == {files[n].sourcePath : n \in 1..Len(files)}

\* one pending call of executeCopy; files the request does not name play no
\* part and are left out of the drive
Init ==
  /\ \E req \in Requests :
       /\ run = [r \in {1} |-> [IdleRun EXCEPT !.request = req]]
       /\ srcFs \in [Sources -> SrcFiles \cup {Missing}]
       /\ \A s \in Sources \ SourcesOf(req.files) : srcFs[s] = Missing
  /\ \E d \in InitDisks : dstFs = d.fs /\ dirs = d.dirs /\ blocked = d.blocked
  /\ emitted = [r \in {1} |-> <<>>]
  /\ history = <<>>
  /\ plugged = TRUE
  /\ cfgDir = "present"
  /\ sse = [r \in DOMAIN run |-> Unsent]
  /\ NoRules
  /\ NoScan
  /\ NoWatch
  /\ NoWeb
  /\ NoTwin

Next ==
  \/ (\E r \in Runs : Start(r)) /\ UNCHANGED <<otherVars, sse>>
  \/ (\E r \in Runs : PrePassStat(r)) /\ UNCHANGED <<otherVars, routeVars>>
  \/ (\E r \in Runs : TaskBegin(r)) /\ UNCHANGED <<otherVars, routeVars>>
  \/ (\E r \in Runs : Complete(r)) /\ UNCHANGED <<otherVars, routeVars>>
  \/ (\E r \in Runs : TaskStat(r)) /\ UNCHANGED <<otherVars, routeVars>>
  \/ (\E r \in Runs : Organize(r)) /\ UNCHANGED <<otherVars, routeVars>>
  \/ (\E r \in Runs : ExistsCheck(r)) /\ UNCHANGED <<otherVars, routeVars>>
  \/ (\E r \in Runs : DupCheck(r)) /\ UNCHANGED <<otherVars, routeVars>>
  \/ (\E r \in Runs : SkipHash(r)) /\ UNCHANGED <<otherVars, routeVars>>
  \/ (\E r \in Runs : Piping(r)) /\ UNCHANGED <<otherVars, routeVars>>
  \/ (\E r \in Runs : CopyHash(r)) /\ UNCHANGED <<otherVars, routeVars>>
  \/ (\E r \in Runs : Catch(r)) /\ UNCHANGED <<otherVars, routeVars>>
  \/ (\E r \in Runs : AfterError(r)) /\ UNCHANGED <<otherVars, sse>>
  \/ (\E r \in Runs : AfterComplete(r)) /\ UNCHANGED <<otherVars, sse>>
  \/ (Unplug) /\ UNCHANGED <<otherVars, routeVars>>
  \/ (Grow) /\ UNCHANGED <<otherVars, routeVars>>

Spec == Init /\ [][Next]_vars

\* the same call with the scheduled actions configured
NextActions ==
  \/ (\E r \in Runs : StartActions(r)) /\ UNCHANGED <<otherVars, sse>>
  \/ (\E r \in Runs : PrePassStat(r)) /\ UNCHANGED <<otherVars, routeVars>>
  \/ (\E r \in Runs : TaskBegin(r)) /\ UNCHANGED <<otherVars, routeVars>>
  \/ (\E r \in Runs : Complete(r)) /\ UNCHANGED <<otherVars, routeVars>>
  \/ (\E r \in Runs : TaskStat(r)) /\ UNCHANGED <<otherVars, routeVars>>
  \/ (\E r \in Runs : ExistsCheck(r)) /\ UNCHANGED <<otherVars, routeVars>>
  \/ (\E r \in Runs : DupCheck(r)) /\ UNCHANGED <<otherVars, routeVars>>
  \/ (\E r \in Runs : SkipHash(r)) /\ UNCHANGED <<otherVars, routeVars>>
  \/ (\E r \in Runs : Piping(r)) /\ UNCHANGED <<otherVars, routeVars>>
  \/ (\E r \in Runs : CopyHash(r)) /\ UNCHANGED <<otherVars, routeVars>>
  \/ (\E r \in Runs : Catch(r)) /\ UNCHANGED <<otherVars, routeVars>>
  \/ (\E r \in Runs : AfterError(r)) /\ UNCHANGED <<otherVars, sse>>
  \/ (\E r \in Runs : AfterComplete(r)) /\ UNCHANGED <<otherVars, sse>>
  \/ (\E r \in Runs : ScheduledActions(r)) /\ UNCHANGED <<otherVars, routeVars>>
  \/ (Unplug) /\ UNCHANGED <<otherVars, routeVars>>
  \/ (Grow) /\ UNCHANGED <<otherVars, routeVars>>

SpecActions == Init /\ [][NextActions]_vars

\* the same request submitted twice with policy skip: the second call is
\* made once the first run has returned after its completed snapshot, with
\* the rules file unchanged; the drive may change once the first run is over
InitTwice ==
  /\ \E req \in Requests :
       /\ req.onDuplicate \in {"skip", Omitted}
       /\ run = [r \in {1, 2} |-> [IdleRun EXCEPT !.request = req]]
       /\ srcFs \in [Sources -> SrcFiles \cup {Missing}]
       /\ \A s \in Sources \ SourcesOf(req.files) : srcFs[s] = Missing
  /\ \E d \in InitDisks : dstFs = d.fs /\ dirs = d.dirs /\ blocked = d.blocked
  /\ emitted = [r \in {1, 2} |-> <<>>]
  /\ history = <<>>
  /\ plugged = TRUE
  /\ cfgDir = "present"
  /\ sse = [r \in DOMAIN run |-> Unsent]
  /\ NoRules
  /\ NoScan
  /\ NoWatch
  /\ NoWeb
  /\ NoTwin

StartAgain ==
  /\ run[1].pc = "done"
  /\ Len(emitted[1]) > 0
  /\ emitted[1][Len(emitted[1])].status = "completed"
  /\ StartWith(2, {run[1].features})

NextTwice ==
  \/ (Start(1)) /\ UNCHANGED <<otherVars, sse>>
  \/ (StartAgain) /\ UNCHANGED <<otherVars, sse>>
  \/ (\E r \in Runs : PrePassStat(r)) /\ UNCHANGED <<otherVars, routeVars>>
  \/ (\E r \in Runs : TaskBegin(r)) /\ UNCHANGED <<otherVars, routeVars>>
  \/ (\E r \in Runs : Complete(r)) /\ UNCHANGED <<otherVars, routeVars>>
  \/ (\E r \in Runs : TaskStat(r)) /\ UNCHANGED <<otherVars, routeVars>>
  \/ (\E r \in Runs : Organize(r)) /\ UNCHANGED <<otherVars, routeVars>>
  \/ (\E r \in Runs : ExistsCheck(r)) /\ UNCHANGED <<otherVars, routeVars>>
  \/ (\E r \in Runs : DupCheck(r)) /\ UNCHANGED <<otherVars, routeVars>>
  \/ (\E r \in Runs : SkipHash(r)) /\ UNCHANGED <<otherVars, routeVars>>
  \/ (\E r \in Runs : Piping(r)) /\ UNCHANGED <<otherVars, routeVars>>
  \/ (\E r \in Runs : CopyHash(r)) /\ UNCHANGED <<otherVars, routeVars>>
  \/ (\E r \in Runs : Catch(r)) /\ UNCHANGED <<otherVars, routeVars>>
  \/ (\E r \in Runs : AfterError(r)) /\ UNCHANGED <<otherVars, sse>>
  \/ (\E r \in Runs : AfterComplete(r)) /\ UNCHANGED <<otherVars, sse>>
  \/ (run[1].pc = "done" /\ Unplug) /\ UNCHANGED <<otherVars, routeVars>>
  \/ (run[1].pc = "done" /\ Grow) /\ UNCHANGED <<otherVars, routeVars>>

SpecTwice == InitTwice /\ [][NextTwice]_vars

\* POST /api/copy around executeCopy; the configuration directory may be
\* missing from the start or be lost during the run; file sizes stay as
\* they are
InitRoute ==
  /\ \E req \in Requests :
       /\ run = [r \in {1} |-> [IdleRun EXCEPT !.request = req]]
       /\ srcFs \in [Sources -> SrcFiles \cup {Missing}]
       /\ \A s \in Sources \ SourcesOf(req.files) : srcFs[s] = Missing
  /\ \E d \in InitDisks : dstFs = d.fs /\ dirs = d.dirs /\ blocked = d.blocked
  /\ emitted = [r \in {1} |-> <<>>]
  /\ history = <<>>
  /\ plugged = TRUE
  /\ cfgDir \in {"present", "absent", "blocked"}
  /\ sse = [r \in {1} |-> Unsent]
  /\ NoRules
  /\ NoScan
  /\ NoWatch
  /\ NoWeb
  /\ NoTwin

\* the steps of the route and of the generator it drives
RouteStep ==
  \/ (\E r \in Runs : Start(r)) /\ UNCHANGED <<otherVars, sse>>
  \/ (\E r \in Runs : PrePassStat(r)) /\ UNCHANGED <<otherVars, routeVars>>
  \/ (\E r \in Runs : TaskBegin(r)) /\ UNCHANGED <<otherVars, routeVars>>
  \/ (\E r \in Runs : Complete(r)) /\ UNCHANGED <<otherVars, routeVars>>
  \/ (\E r \in Runs : TaskStat(r)) /\ UNCHANGED <<otherVars, routeVars>>
  \/ (\E r \in Runs : Organize(r)) /\ UNCHANGED <<otherVars, routeVars>>
  \/ (\E r \in Runs : ExistsCheck(r)) /\ UNCHANGED <<otherVars, routeVars>>
  \/ (\E r \in Runs : DupCheck(r)) /\ UNCHANGED <<otherVars, routeVars>>
  \/ (\E r \in Runs : SkipHash(r)) /\ UNCHANGED <<otherVars, routeVars>>
  \/ (\E r \in Runs : Piping(r)) /\ UNCHANGED <<otherVars, routeVars>>
  \/ (\E r \in Runs : CopyHash(r)) /\ UNCHANGED <<otherVars, routeVars>>
  \/ (\E r \in Runs : Catch(r)) /\ UNCHANGED <<otherVars, routeVars>>
  \/ (\E r \in Runs : AfterError(r)) /\ UNCHANGED <<otherVars, sse>>
  \/ (\E r \in Runs : AfterComplete(r)) /\ UNCHANGED <<otherVars, sse>>
  \/ (\E r \in Runs : RouteCatch(r)) /\ UNCHANGED otherVars
  \/ (\E r \in Runs : RouteEnd(r)) /\ UNCHANGED otherVars

NextRoute ==
  \/ RouteStep
  \/ Unplug /\ UNCHANGED <<otherVars, routeVars>>
  \/ LoseConfigDir /\ UNCHANGED otherVars

\* every await settles and the consumer keeps calling next()
SpecRoute == InitRoute /\ [][NextRoute]_vars /\ WF_vars(RouteStep)

\* two POST /api/copy requests are served at once: executeCopy runs once for
\* each, and the two generators take turns at their awaits; both requests
\* carry the same duplicate policy, the second names at most one file, no
\* optional feature is on, and the drive stays as it is (y/b may be
\* unreadable)
InitPair ==
  /\ \E req1, req2 \in Requests :
       /\ req1.onDuplicate = req2.onDuplicate
       /\ req1.onDuplicate # Omitted
       /\ Len(req2.files) <= 1
       /\ run = [r \in {1, 2} |-> [IdleRun EXCEPT !.request = IF r = 1 THEN req1 ELSE req2]]
  /\ srcFs \in {[s \in Sources |-> IF s = "x/a" THEN <<0, 1>> ELSE b] : b \in {<<MaxSize, 1>>, Missing}}
  /\ \E d \in InitDisks : dstFs = d.fs /\ dirs = d.dirs /\ blocked = d.blocked
  /\ emitted = [r \in {1, 2} |-> <<>>]
  /\ history = <<>>
  /\ plugged = TRUE
  /\ cfgDir = "present"
  /\ sse = [r \in {1, 2} |-> Unsent]
  /\ NoRules
  /\ NoScan
  /\ NoWatch
  /\ NoWeb
  /\ NoTwin

NextPair ==
  \/ (\E r \in Runs : StartWith(r, {IdleRun.features})) /\ UNCHANGED <<otherVars, sse>>
  \/ (\E r \in Runs : PrePassStat(r)) /\ UNCHANGED <<otherVars, routeVars>>
  \/ (\E r \in Runs : TaskBegin(r)) /\ UNCHANGED <<otherVars, routeVars>>
  \/ (\E r \in Runs : Complete(r)) /\ UNCHANGED <<otherVars, routeVars>>
  \/ (\E r \in Runs : TaskStat(r)) /\ UNCHANGED <<otherVars, routeVars>>
  \/ (\E r \in Runs : ExistsCheck(r)) /\ UNCHANGED <<otherVars, routeVars>>
  \/ (\E r \in Runs : Piping(r)) /\ UNCHANGED <<otherVars, routeVars>>
  \/ (\E r \in Runs : Catch(r)) /\ UNCHANGED <<otherVars, routeVars>>
  \/ (\E r \in Runs : AfterError(r)) /\ UNCHANGED <<otherVars, sse>>
  \/ (\E r \in Runs : AfterComplete(r)) /\ UNCHANGED <<otherVars, sse>>

SpecPair == InitPair /\ [][NextPair]_vars

\* one request with policy skip run twice from the same drive and disk:
\* first with features.contentDuplicates off, then, the disk put back as it
\* was, with it on and the other features as before; the drive does not
\* change, so no hash fails
InitTwin ==
  /\ \E req \in Requests :
       /\ req.onDuplicate \in {"skip", Omitted}
       /\ run = [r \in {1, 2} |-> [IdleRun EXCEPT !.request = req]]
       /\ srcFs \in [Sources -> SrcFiles \cup {Missing}]
       /\ \A s \in Sources \ SourcesOf(req.files) : srcFs[s] = Missing
  /\ \E d \in InitDisks : dstFs = d.fs /\ dirs = d.dirs /\ blocked = d.blocked
  /\ twin = [dstFs |-> dstFs, dirs |-> dirs, left |-> <<>>]
  /\ emitted = [r \in {1, 2} |-> <<>>]
  /\ history = <<>>
  /\ plugged = TRUE
  /\ cfgDir = "present"
  /\ sse = [r \in {1, 2} |-> Unsent]
  /\ NoRules
  /\ NoScan
  /\ NoWatch
  /\ NoWeb

\* the first run: the content stage is off
StartPlain == StartWith(1, {cfg \in FeatureConfigs : ~cfg.contentDuplicates})

\* the first run has returned: what it left is noted and the disk is put
\* back as it was before it
Rewind ==
  /\ run[1].pc = "done"
  /\ twin.left = <<>>
  /\ twin' = [twin EXCEPT !.left = <<dstFs>>]
  /\ dstFs' = twin.dstFs
  /\ dirs' = twin.dirs
  /\ UNCHANGED <<srcFs, blocked, run, emitted, history, plugged, routeVars>>

\* the second run: the same features with the content stage on
StartContent ==
  /\ twin.left # <<>>
  /\ StartWith(2, {[run[1].features EXCEPT !.contentDuplicates = TRUE]})

NextTwin ==
  \/ (StartPlain) /\ UNCHANGED <<otherVars, sse>>
  \/ (Rewind) /\ UNCHANGED <<ruleVars, scanVars, watchVars, webVars>>
  \/ (StartContent) /\ UNCHANGED <<otherVars, sse>>
  \/ (\E r \in Runs : PrePassStat(r)) /\ UNCHANGED <<otherVars, routeVars>>
  \/ (\E r \in Runs : TaskBegin(r)) /\ UNCHANGED <<otherVars, routeVars>>
  \/ (\E r \in Runs : Complete(r)) /\ UNCHANGED <<otherVars, routeVars>>
  \/ (\E r \in Runs : TaskStat(r)) /\ UNCHANGED <<otherVars, routeVars>>
  \/ (\E r \in Runs : Organize(r)) /\ UNCHANGED <<otherVars, routeVars>>
  \/ (\E r \in Runs : ExistsCheck(r)) /\ UNCHANGED <<otherVars, routeVars>>
  \/ (\E r \in Runs : DupCheck(r)) /\ UNCHANGED <<otherVars, routeVars>>
  \/ (\E r \in Runs : SkipHash(r)) /\ UNCHANGED <<otherVars, routeVars>>
  \/ (\E r \in Runs : Piping(r)) /\ UNCHANGED <<otherVars, routeVars>>
  \/ (\E r \in Runs : CopyHash(r)) /\ UNCHANGED <<otherVars, routeVars>>
  \/ (\E r \in Runs : Catch(r)) /\ UNCHANGED <<otherVars, routeVars>>
  \/ (\E r \in Runs : AfterError(r)) /\ UNCHANGED <<otherVars, sse>>
  \/ (\E r \in Runs : AfterComplete(r)) /\ UNCHANGED <<otherVars, sse>>

SpecTwin == InitTwin /\ [][NextTwin]_vars

\* The App component around one copy run: the files are selected and the
\* destination is chosen; the server runs with no optional feature on a
\* drive that stays as it is.
\* copyProgress = null; copyProgress?.status is then undefined
NoProgress == [status |-> Null]

\* the App component after mount: nothing received, no click yet
IdleUi == [copyProgress |-> NoProgress, received |-> 0, clicked |-> FALSE]

\* the disabled attribute of the Copy and Copy All buttons, with files
\* selected and a destination chosen
CopyDisabled(u) == u.copyProgress.status = "copying"

\* handleCopy / handleAutoCopy: the request is posted
HandleCopy ==
  /\ ~ui.clicked
  /\ ~CopyDisabled(ui)
  /\ ui' = [ui EXCEPT !.clicked = TRUE]
  /\ UNCHANGED <<preview, reader>>

\* POST /api/copy arrives: executeCopy is called
ServeCopy == ui.clicked /\ StartWith(1, {IdleRun.features})

\* for await (const progress of executeCopy(request)) setCopyProgress(progress)
SetCopyProgress ==
  /\ ui.received < Len(emitted[1])
  /\ ui' = [ui EXCEPT !.copyProgress = emitted[1][ui.received + 1], !.received = @ + 1]
  /\ UNCHANGED <<preview, reader>>

InitUi ==
  /\ \E req \in Requests :
       /\ Len(req.files) > 0
       /\ run = [r \in {1} |-> [IdleRun EXCEPT !.request = req]]
       /\ srcFs \in [Sources -> SrcFiles \cup {Missing}]
       /\ \A s \in Sources \ SourcesOf(req.files) : srcFs[s] = Missing
  /\ \E d \in InitDisks : dstFs = d.fs /\ dirs = d.dirs /\ blocked = d.blocked
  /\ emitted = [r \in {1} |-> <<>>]
  /\ history = <<>>
  /\ plugged = TRUE
  /\ cfgDir = "present"
  /\ sse = [r \in {1} |-> Unsent]
  /\ NoRules
  /\ NoScan
  /\ NoWatch
  /\ preview = <<>> /\ reader = <<>>
  /\ ui = IdleUi
  /\ NoTwin

NextUi ==
  \/ HandleCopy /\ UNCHANGED <<copyVars, ruleVars, scanVars, watchVars, twin>>
  \/ SetCopyProgress /\ UNCHANGED <<copyVars, ruleVars, scanVars, watchVars, twin>>
  \/ (ServeCopy) /\ UNCHANGED <<otherVars, sse>>
  \/ (\E r \in Runs : PrePassStat(r)) /\ UNCHANGED <<otherVars, routeVars>>
  \/ (\E r \in Runs : TaskBegin(r)) /\ UNCHANGED <<otherVars, routeVars>>
  \/ (\E r \in Runs : Complete(r)) /\ UNCHANGED <<otherVars, routeVars>>
  \/ (\E r \in Runs : TaskStat(r)) /\ UNCHANGED <<otherVars, routeVars>>
  \/ (\E r \in Runs : ExistsCheck(r)) /\ UNCHANGED <<otherVars, routeVars>>
  \/ (\E r \in Runs : Piping(r)) /\ UNCHANGED <<otherVars, routeVars>>
  \/ (\E r \in Runs : Catch(r)) /\ UNCHANGED <<otherVars, routeVars>>
  \/ (\E r \in Runs : AfterError(r)) /\ UNCHANGED <<otherVars, sse>>
  \/ (\E r \in Runs : AfterComplete(r)) /\ UNCHANGED <<otherVars, sse>>

SpecUi == InitUi /\ [][NextUi]_vars

\* no copy run takes part in rule matching
NoCopy ==
  /\ run = [r \in {1} |-> IdleRun]
  /\ srcFs = [s \in Sources |-> Missing]
  /\ dstFs = Disk(Missing, Missing) /\ dirs = {} /\ blocked = {}
  /\ emitted = [r \in {1} |-> <<>>]
  /\ history = <<>>
  /\ plugged = TRUE
  /\ cfgDir = "present"
  /\ sse = [r \in {1} |-> Unsent]

\* matchFile over every rules list of up to MaxRules rules, each with a
\* pattern of its own
InitMatch ==
  /\ NoCopy
  /\ rules \in {q \in SeqsUpTo(RulePool, MaxRules) :
                  \A m, n \in 1..Len(q) : q[m].match = q[n].match => m = n}
  /\ relativePath = <<>>
  /\ matchedRule = NoMatch
  /\ lastEdit = NoEdit
  /\ NoScan
  /\ NoWatch
  /\ NoWeb
  /\ NoTwin

NextMatch ==
  \/ Match /\ UNCHANGED <<copyVars, scanVars, watchVars, webVars, twin>>
  \/ ToggleRule /\ UNCHANGED <<copyVars, scanVars, watchVars, webVars, twin>>
  \/ SwapRules /\ UNCHANGED <<copyVars, scanVars, watchVars, webVars, twin>>

SpecMatch == InitMatch /\ [][NextMatch]_vars

\* GET /api/files after the scan: applyRulesToFiles loads the rules and
\* matches the files one after the other
InitLoad == NoCopy /\ NoRules /\ NoScan /\ NoWatch /\ NoWeb /\ NoTwin

NextLoad ==
  \/ LoadRules /\ UNCHANGED <<copyVars, scanVars, watchVars, webVars, twin>>
  \/ (lastEdit # NoEdit /\ Match) /\ UNCHANGED <<copyVars, scanVars, watchVars, webVars, twin>>

SpecLoad == InitLoad /\ [][NextLoad]_vars

\* history.json under addHistoryEntry, DELETE /api/history/:id and
\* DELETE /api/history; the file is empty, or full or nearly full
InitHistory ==
  /\ run = [r \in {1} |-> IdleRun]
  /\ srcFs = [s \in Sources |-> Missing]
  /\ dstFs = Disk(Missing, Missing) /\ dirs = {} /\ blocked = {}
  /\ emitted = [r \in {1} |-> <<>>]
  /\ history \in {<<>>, StoredHistory(MaxHistoryEntries - 1), StoredHistory(MaxHistoryEntries)}
  /\ plugged = TRUE
  /\ cfgDir = "present"
  /\ sse = [r \in {1} |-> Unsent]
  /\ NoRules
  /\ NoScan
  /\ NoWatch
  /\ NoWeb
  /\ NoTwin

\* the end of a run with features.copyHistory: an entry with a fresh id,
\* stamped new Date(), is added; writeFileSync may fail, which saveHistory
\* only logs.  At most two runs end at the same millisecond.
AddEntry ==
  /\ Len(history) < MaxOps \/ Len(history) >= MaxHistoryEntries - MaxOps
  /\ \E now \in (IF history = <<>> THEN {1} ELSE {history[1].timestamp, history[1].timestamp + 1}),
        saved \in BOOLEAN :
       LET tie == history # <<>> /\ history[1].timestamp = now
       IN /\ now <= MaxHistoryEntries + MaxOps
          /\ (tie /\ Len(history) >= 2) => history[2].timestamp # now
          /\ history' = IF saved
                        THEN AddHistoryEntry(history,
                                             [id |-> 2 * (MaxHistoryEntries + now) + (IF tie THEN 1 ELSE 0),
                                              timestamp |-> now])
                        ELSE history
  /\ UNCHANGED <<srcFs, dstFs, dirs, blocked, run, emitted, plugged, routeVars>>

\* DELETE /api/history/:id, for the newest or the oldest entry or an unknown id
DeleteEntry ==
  /\ Len(history) > MaxHistoryEntries - MaxOps \/ Len(history) <= MaxOps
  /\ \E id \in {0} \cup (IF history = <<>> THEN {} ELSE {history[1].id, history[Len(history)].id}) :
       history' = DeleteHistoryEntry(history, id)
  /\ UNCHANGED <<srcFs, dstFs, dirs, blocked, run, emitted, plugged, routeVars>>

\* DELETE /api/history
ClearHistory ==
  /\ history' = <<>>
  /\ UNCHANGED <<srcFs, dstFs, dirs, blocked, run, emitted, plugged, routeVars>>

NextHistory ==
  \/ AddEntry /\ UNCHANGED otherVars
  \/ DeleteEntry /\ UNCHANGED otherVars
  \/ ClearHistory /\ UNCHANGED otherVars

SpecHistory == InitHistory /\ [][NextHistory]_vars

\* the watcher alone: drives come and go, checkForDrives is called one call
\* at a time
InitWatch == NoCopy /\ NoRules /\ NoScan /\ NoWatch /\ NoWeb /\ NoTwin

NextWatch ==
  \/ Mount /\ UNCHANGED <<copyVars, ruleVars, scanVars, webVars, twin>>
  \/ Unmount /\ UNCHANGED <<copyVars, ruleVars, scanVars, webVars, twin>>
  \/ PollDrives /\ UNCHANGED <<copyVars, ruleVars, scanVars, webVars, twin>>
  \/ ApplyDrives /\ UNCHANGED <<copyVars, ruleVars, scanVars, webVars, twin>>

SpecWatch == InitWatch /\ [][NextWatch]_vars

\* the watcher with overlapping calls of checkForDrives and the exits of
\* the servers it killed
InitServers ==
  /\ NoCopy /\ NoRules /\ NoScan /\ NoWeb /\ NoTwin
  /\ mounts = {}
  /\ watcher = IdleSupervisor

NextServers ==
  \/ Mount /\ UNCHANGED <<copyVars, ruleVars, scanVars, webVars, twin>>
  \/ Unmount /\ UNCHANGED <<copyVars, ruleVars, scanVars, webVars, twin>>
  \/ (\E c \in Calls : CheckForDrives(c)) /\ UNCHANGED <<copyVars, ruleVars, scanVars, webVars, twin>>
  \/ (\E c \in Calls : DrivesListed(c)) /\ UNCHANGED <<copyVars, ruleVars, scanVars, webVars, twin>>
  \/ (\E c \in Calls : ServerStarted(c)) /\ UNCHANGED <<copyVars, ruleVars, scanVars, webVars, twin>>
  \/ ServerExit /\ UNCHANGED <<copyVars, ruleVars, scanVars, webVars, twin>>

SpecServers == InitServers /\ [][NextServers]_vars

(* ------------------------ the progress stream -------------------------- *)
\* Text is a sequence of characters; LF is the newline, BS the backslash.
LF == "LF"

BS == "BS"

\* the progress events of the model: a status letter and an error text,
\* which may hold newlines and backslashes
SnapshotPool ==
  { [status |-> "c", error |-> <<>>],
    [status |-> "e", error |-> <<LF, LF>>],
    [status |-> "e", error |-> <<BS>>] }

\* JSON.stringify on a string: newline and backslash are escaped
RECURSIVE Escape(_)
Escape(text) ==
  IF text = <<>> THEN <<>>
  ELSE (IF Head(text) = LF THEN <<BS, "n">>
        ELSE IF Head(text) = BS THEN <<BS, BS>>
        ELSE <<Head(text)>>) \o Escape(Tail(text))

\* JSON.stringify(progress)
Stringify(snap) == <<"{", snap.status, ":">> \o Escape(snap.error) \o <<"}">>

\* the body of a JSON string is well formed: no bare newline, every
\* backslash starts an escape
RECURSIVE ValidEscapes(_)
ValidEscapes(chars) ==
  IF chars = <<>> THEN TRUE
  ELSE IF Head(chars) = LF THEN FALSE
  ELSE IF Head(chars) = BS
       THEN Len(chars) >= 2 /\ chars[2] \in {"n", BS}
            /\ ValidEscapes(SubSeq(chars, 3, Len(chars)))
       ELSE ValidEscapes(Tail(chars))

RECURSIVE Unescape(_)
Unescape(chars) ==
  IF chars = <<>> THEN <<>>
  ELSE IF Head(chars) = BS
       THEN <<IF chars[2] = "n" THEN LF ELSE BS>> \o Unescape(SubSeq(chars, 3, Len(chars)))
       ELSE <<Head(chars)>> \o Unescape(Tail(chars))

\* JSON.parse throws
SyntaxError == [thrown |-> "SyntaxError"]

\* JSON.parse(text)
Parse(chars) ==
  IF /\ Len(chars) >= 4
     /\ chars[1] = "{" /\ chars[3] = ":" /\ chars[Len(chars)] = "}"
     /\ ValidEscapes(SubSeq(chars, 4, Len(chars) - 1))
  THEN [status |-> chars[2], error |-> Unescape(SubSeq(chars, 4, Len(chars) - 1))]
  ELSE SyntaxError

\* 'data: '
DataPrefix == <<"d", "a", "t", "a", ":", " ">>

\* the server's event: `data: ${JSON.stringify(progress)}\n\n`
Event(snap) == DataPrefix \o Stringify(snap) \o <<LF, LF>>

\* buffer.split('\n\n'): the pieces between the separators, left to right
RECURSIVE SplitOn(_, _)
SplitOn(piece, rest) ==
  IF rest = <<>> THEN <<piece>>
  ELSE IF Len(rest) >= 2 /\ rest[1] = LF /\ rest[2] = LF
       THEN <<piece>> \o SplitOn(<<>>, SubSeq(rest, 3, Len(rest)))
       ELSE SplitOn(Append(piece, Head(rest)), Tail(rest))

Split(text) == SplitOn(<<>>, text)

\* variant: each chunk is split by itself, nothing is kept between chunks
OnChunk_NoBuffer(buffer, value) ==
  LET lines == Split(value)
  IN [lines |-> SubSeq(lines, 1, Len(lines) - 1), buffer |-> <<>>]

\* buffer += chunk; lines = buffer.split('\n\n'); buffer = lines.pop()
OnChunk(buffer, value) ==
  LET lines == Split(buffer \o value)
  IN [lines |-> SubSeq(lines, 1, Len(lines) - 1), buffer |-> lines[Len(lines)]]

\* the loop over the lines: what is parsed from the lines that start with
\* 'data: ', in order
RECURSIVE ParseLines(_)
ParseLines(lines) ==
  IF lines = <<>> THEN <<>>
  ELSE (IF StartsWith(Head(lines), DataPrefix)
        THEN <<Parse(SubSeq(Head(lines), Len(DataPrefix) + 1, Len(Head(lines))))>>
        ELSE <<>>) \o ParseLines(Tail(lines))

\* the values yielded before the first one JSON.parse throws on
RECURSIVE UpToThrow(_)
UpToThrow(values) ==
  IF values = <<>> \/ Head(values) = SyntaxError THEN <<>>
  ELSE <<Head(values)>> \o UpToThrow(Tail(values))

\* the client's executeCopy after fetch: nothing read yet; pending are the
\* snapshots the server's run is going to yield
IdleReader(snapshots) ==
  [pending |-> snapshots, sent |-> <<>>, wire |-> <<>>, buffer |-> <<>>,
   yielded |-> <<>>, pc |-> "reading", cuts |-> {}]

\* POST /api/copy: reply.raw.write(event) for the next snapshot
WriteEvent ==
  /\ reader.pending # <<>>
  /\ reader' = [reader EXCEPT !.pending = Tail(@),
                               !.sent = Append(@, Head(reader.pending)),
                               !.wire = @ \o Event(Head(reader.pending))]
  /\ UNCHANGED <<preview, ui>>

\* where a chunk ends: inside the data: prefix, or between the two newlines
Cuts(buffer, wire) ==
  (IF buffer # <<>> /\ buffer # DataPrefix /\ StartsWith(DataPrefix, buffer)
   THEN {"prefix"} ELSE {})
  \cup (IF buffer # <<>> /\ buffer[Len(buffer)] = LF /\ wire # <<>> /\ Head(wire) = LF
        THEN {"newlines"} ELSE {})

\* await reader.read() resolves with the next bytes, any number of those
\* written and not yet read; the lines completed are parsed and yielded
ReaderRead ==
  /\ reader.pc = "reading"
  /\ \E n \in 1..Len(reader.wire) :
       LET value == SubSeq(reader.wire, 1, n)
           rest == SubSeq(reader.wire, n + 1, Len(reader.wire))
           chunk == OnChunk(reader.buffer, value)
           values == ParseLines(chunk.lines)
       IN reader' = [reader EXCEPT
                       !.wire = rest,
                       !.buffer = chunk.buffer,
                       !.yielded = @ \o UpToThrow(values),
                       !.pc = IF UpToThrow(values) # values THEN "threw" ELSE "reading",
                       !.cuts = @ \cup Cuts(chunk.buffer, rest)]
  /\ UNCHANGED <<preview, ui>>

\* the server has ended the response and all of it was read: done, break
ReaderDone ==
  /\ reader.pc = "reading"
  /\ reader.pending = <<>> /\ reader.wire = <<>>
  /\ reader' = [reader EXCEPT !.pc = "done"]
  /\ UNCHANGED <<preview, ui>>

\* one response of POST /api/copy read by the client
InitReader ==
  /\ NoCopy /\ NoRules /\ NoScan /\ NoWatch /\ NoTwin
  /\ preview = <<>> /\ ui = <<>>
  /\ \E snapshots \in SeqsUpTo(SnapshotPool, MaxEvents) : reader = IdleReader(snapshots)

NextReader ==
  \/ WriteEvent /\ UNCHANGED <<copyVars, ruleVars, scanVars, watchVars, twin>>
  \/ ReaderRead /\ UNCHANGED <<copyVars, ruleVars, scanVars, watchVars, twin>>
  \/ ReaderDone /\ UNCHANGED <<copyVars, ruleVars, scanVars, watchVars, twin>>

SpecReader == InitReader /\ [][NextReader]_vars

\* the server answers preview requests
InitPreview == NoCopy /\ NoRules /\ NoScan /\ NoWatch /\ NoWeb /\ NoTwin

NextPreview == GetPreview /\ UNCHANGED <<copyVars, ruleVars, scanVars, watchVars, twin>>

SpecPreview == InitPreview /\ [][NextPreview]_vars

\* scanDirectory over the drives, exclusion lists, and failing entries
InitScan ==
  /\ NoCopy
  /\ NoRules
  /\ drive \in Drives
  /\ exclusions \in SubSeqs(ExclusionPool)
  /\ statFails \in {F \in SUBSET (FixedNodes \cup UNION OptionalNodes) : Cardinality(F) <= MaxFailures}
  /\ readdirFails \in {{}, {ScanRoot}, {<<<<"d">>>>}}
  /\ scanEntries = <<>>
  /\ NoWatch
  /\ NoWeb
  /\ NoTwin

NextScan ==
  \/ Scan /\ UNCHANGED <<copyVars, ruleVars, watchVars, webVars, twin>>
  \/ Replug /\ UNCHANGED <<copyVars, ruleVars, watchVars, webVars, twin>>

SpecScan == InitScan /\ [][NextScan]_vars

\* GET /api/files: the drive is scanned and the tree is flattened
NextFlatten ==
  \/ Scan /\ UNCHANGED <<copyVars, ruleVars, watchVars, webVars, twin>>
  \/ Flatten /\ UNCHANGED <<copyVars, ruleVars, watchVars, webVars, twin>>

SpecFlatten == InitScan /\ [][NextFlatten]_vars

(* ------------------------------ properties ----------------------------- *)
Last(q) == q[Len(q)]

Terminal(snap) == snap.status \in {"completed", "error"}

TasksWith(rec, kind, below) == {n \in 1..(below - 1) : <<n, kind>> \in rec.ops}

AllZero(snap) ==
  /\ snap.totalFiles = 0 /\ snap.copiedFiles = 0 /\ snap.skippedFiles = 0
  /\ snap.totalBytes = 0 /\ snap.copiedBytes = 0

\* C1: every snapshot with status completed has
\* copiedFiles + skippedFiles = totalFiles.
C1_CompletedCountsAll ==
  \A r \in Runs : \A k \in 1..Len(emitted[r]) :
    emitted[r][k].status = "completed" =>
      emitted[r][k].copiedFiles + emitted[r][k].skippedFiles = emitted[r][k].totalFiles

\* a completed run with a copied and a skipped task
C1_Witness ==
  \E r \in Runs :
    /\ Len(emitted[r]) > 0
    /\ Last(emitted[r]).status = "completed"
    /\ Last(emitted[r]).copiedFiles >= 1
    /\ Last(emitted[r]).skippedFiles >= 1

\* C2: in every snapshot, the error snapshot included,
\* copiedFiles + skippedFiles <= totalFiles.
C2_CountsBounded ==
  \A r \in Runs : \A k \in 1..Len(emitted[r]) :
    emitted[r][k].copiedFiles + emitted[r][k].skippedFiles <= emitted[r][k].totalFiles

\* an error snapshot after a finished task
C2_Witness ==
  \E r \in Runs :
    /\ Len(emitted[r]) > 0
    /\ Last(emitted[r]).status = "error"
    /\ Last(emitted[r]).copiedFiles + Last(emitted[r]).skippedFiles >= 1

\* C3 as stated: a completed run has copiedBytes <= totalBytes, with equality
\* when no task was renamed, whatever happens to the sources between the
\* pre-pass stat and the task's stat.
C3_Original ==
  \A r \in Runs : \A k \in 1..Len(emitted[r]) :
    emitted[r][k].status = "completed" =>
      /\ emitted[r][k].copiedBytes <= emitted[r][k].totalBytes
      /\ (\A n \in 1..Len(Files(run[r])) : <<n, "renamed">> \notin run[r].ops)
           => emitted[r][k].copiedBytes = emitted[r][k].totalBytes

\* C4: copiedFiles, skippedFiles and copiedBytes never decrease from one
\* snapshot of a run to the next.
C4_CountersMonotone ==
  \A r \in Runs : \A k \in 1..(Len(emitted[r]) - 1) :
    /\ emitted[r][k].copiedFiles <= emitted[r][k + 1].copiedFiles
    /\ emitted[r][k].skippedFiles <= emitted[r][k + 1].skippedFiles
    /\ emitted[r][k].copiedBytes <= emitted[r][k + 1].copiedBytes

\* a run in which all three counters went up
C4_Witness ==
  \E r \in Runs :
    /\ Len(emitted[r]) >= 5
    /\ Last(emitted[r]).copiedFiles >= 1
    /\ Last(emitted[r]).skippedFiles >= 1
    /\ Last(emitted[r]).copiedBytes >= 1

\* C5: totalBytes, totalFiles and id are those of the first snapshot in every
\* snapshot of the run, totalFiles being the length of the task list and id
\* the run's own, whatever happens to the sources during the run.
C5_TotalsFixed ==
  \A r \in Runs : \A k \in 1..Len(emitted[r]) :
    /\ emitted[r][k].totalBytes = emitted[r][1].totalBytes
    /\ emitted[r][k].totalFiles = emitted[r][1].totalFiles
    /\ emitted[r][k].id = emitted[r][1].id
    /\ emitted[r][k].totalFiles = Len(Files(run[r]))
    /\ emitted[r][k].id = r

\* a run whose source grew after the pre-pass: more bytes copied than announced
C5_Witness ==
  \E r \in Runs :
    /\ Len(emitted[r]) >= 4
    /\ Last(emitted[r]).copiedBytes > Last(emitted[r]).totalBytes

\* C6: a snapshot with status completed or error is the last one of its run.
C6_TerminalIsLast ==
  \A r \in Runs : \A k \in 1..Len(emitted[r]) :
    Terminal(emitted[r][k]) => k = Len(emitted[r])

\* a run that returned after its error snapshot, a task having finished before
C6_Witness ==
  \E r \in Runs :
    /\ run[r].pc = "done"
    /\ Len(emitted[r]) >= 5
    /\ Last(emitted[r]).status = "error"

\* C7: after a stat, mkdir or stream-copy failure of task f the last snapshot
\* has status error and an error message, the run is past its loop, nothing
\* was done for a task after f, and the error snapshot counts exactly the
\* tasks before f that were copied, respectively skipped.
C7_FailureEndsRun ==
  \A r \in Runs :
    LET rec == run[r]
        f == rec.i
    IN (rec.errKind \in {"stat", "mkdir", "copy"} /\ rec.pc # "catch") =>
         /\ rec.pc \in {"afterError", "done"}
         /\ Last(emitted[r]).status = "error"
         /\ Last(emitted[r]).error # Null
         /\ \A op \in rec.ops : op[1] <= f
         /\ Last(emitted[r]).copiedFiles = Cardinality(TasksWith(rec, "copied", f))
         /\ Last(emitted[r]).skippedFiles = Cardinality(TasksWith(rec, "skipped", f))

\* the stream copy of the first of two tasks failed and the run has returned
C7_Witness ==
  \E r \in Runs :
    /\ run[r].pc = "done"
    /\ run[r].errKind = "copy"
    /\ run[r].i = 1
    /\ Len(Files(run[r])) = 2

\* C8 as stated: for an empty task list exactly one snapshot is emitted, and
\* it has status completed and all counters 0.
C8_Original ==
  \A r \in Runs :
    Len(Files(run[r])) = 0 =>
      /\ Len(emitted[r]) <= 1
      /\ Len(emitted[r]) = 1 =>
           emitted[r][1].status = "completed" /\ AllZero(emitted[r][1])

\* C8 amended: for an empty task list exactly two snapshots are emitted, the
\* first with status copying, the second with status completed, both with
\* all counters 0.
C8_EmptyListTwoSnapshots ==
  \A r \in Runs :
    Len(Files(run[r])) = 0 =>
      /\ Len(emitted[r]) <= 2
      /\ Len(emitted[r]) >= 1 =>
           emitted[r][1].status = "copying" /\ AllZero(emitted[r][1])
      /\ Len(emitted[r]) = 2 =>
           emitted[r][2].status = "completed" /\ AllZero(emitted[r][2])
      /\ run[r].pc \in {"afterComplete", "done"} => Len(emitted[r]) = 2

\* a finished run of an empty task list
C8_Witness ==
  \E r \in Runs : Len(Files(run[r])) = 0 /\ run[r].pc = "done"

\* C9 as stated: the snapshot emitted at the start of a task has status
\* copying and currentFile = the task's sourcePath.
C9_Original ==
  \A r \in Runs :
    run[r].pc = "stat" =>
      /\ Last(emitted[r]).status = "copying"
      /\ Last(emitted[r]).currentFile = CurrentTask(run[r]).sourcePath

\* C10 as stated: with policy skip, the step that settles a task whose
\* destination was found to exist changes no destination file, yields a
\* snapshot with the source size added to copiedBytes, skippedFiles one
\* higher and copiedFiles unchanged, and the run is at the next task.
C10_Original ==
  [][\A r \in Runs :
       LET a == run[r]
           b == run'[r]
       IN (/\ a.onDuplicate = "skip"
           /\ a.pc \in {"exists", "dupCheck", "skipHash"}
           /\ <<a.i, "destExisted">> \in b.ops
           /\ b.pc \notin {"dupCheck", "skipHash"})
          => /\ b.pc = "loop" /\ b.i = a.i + 1
             /\ dstFs' = dstFs
             /\ Len(emitted'[r]) = Len(emitted[r]) + 1
             /\ Last(emitted'[r]).copiedBytes = Last(emitted[r]).copiedBytes + a.sourceStats
             /\ Last(emitted'[r]).skippedFiles = Last(emitted[r]).skippedFiles + 1
             /\ Last(emitted'[r]).copiedFiles = Last(emitted[r]).copiedFiles]_vars

\* C11 as stated: with policy rename, a task whose destination dir/base.ext
\* was found to exist starts its write at dir/base_k.ext, k >= 1 the smallest
\* for which that path does not exist (base_2 when base and base_1 exist).
C11_Original ==
  [][\A r \in Runs :
       LET a == run[r]
           b == run'[r]
       IN (/\ a.onDuplicate = "rename"
           /\ a.pc \in {"exists", "dupCheck"}
           /\ <<a.i, "destExisted">> \in b.ops
           /\ b.pc = "piping")
          => /\ b.destPath.dir = a.destPath.dir
             /\ b.destPath.base = a.destPath.base
             /\ b.destPath.k >= 1
             /\ ~ExistsSync(dstFs, b.destPath)
             /\ \A k \in 1..(b.destPath.k - 1) :
                  ExistsSync(dstFs, Path(a.destPath.dir, a.destPath.base, k))]_vars

\* C12 as stated: with policy rename, no write of the run starts at a path
\* that exists, and no step of the run changes a file that exists on the
\* destination disk, whatever the feature configuration.
C12_Original ==
  [][\A r \in Runs :
       LET a == run[r]
           b == run'[r]
       IN a.onDuplicate = "rename"
          => /\ (a.pc # "piping" /\ b.pc = "piping") => ~ExistsSync(dstFs, b.destPath)
             /\ \A p \in DestPaths : ExistsSync(dstFs, p) => dstFs'[p] = dstFs[p]]_vars

FirstEnabledMatch(path, rs, from) ==
  LET M == {k \in from..Len(rs) : rs[k].enabled /\ IsMatch(rs[k].match, path, FALSE)}
  IN IF M = {} THEN 0 ELSE CHOOSE k \in M : \A m \in M : k <= m

Expected(path, rs, from) ==
  IF FirstEnabledMatch(path, rs, from) = 0 THEN NoMatch
  ELSE MatchedRule(rs[FirstEnabledMatch(path, rs, from)])

\* C14: matchFile returns the enabled matching rule of lowest position (with
\* its destination expanded), null when there is none, and never a disabled
\* rule; with the returned rule disabled it returns the next enabled
\* matching rule after it, or null.
C14_FirstEnabledMatch ==
  /\ relativePath # <<>> => matchedRule = Expected(relativePath, rules, 1)
  /\ \A path \in RelativePaths :
       LET k == FirstEnabledMatch(path, rules, 1)
       IN /\ MatchFile(path, rules) = Expected(path, rules, 1)
          /\ MatchFile(path, rules) # NoMatch => MatchFile(path, rules).rule.enabled
          /\ k # 0 => MatchFile(path, [rules EXCEPT ![k].enabled = FALSE])
                        = Expected(path, rules, k + 1)

\* the first rule, which matches the file, has just been disabled: the file
\* now goes to the second rule, **/*, although the third, *.j, is narrower
C14_Witness ==
  /\ lastEdit = <<"toggle", 1, 1>>
  /\ Len(rules) = 3
  /\ relativePath = <<<<"p", ".", "j">>>>
  /\ ~rules[1].enabled /\ IsMatch(rules[1].match, relativePath, FALSE)
  /\ rules[2] = Rule(<<Globstar, <<"*">>>>, TRUE)
  /\ rules[3] = Rule(<<<<"*", ".", "j">>>>, TRUE)
  /\ matchedRule = MatchedRule(rules[2])

\* no path is matched by both rules' globs
NonConflicting(a, b) ==
  \A path \in RelativePaths :
    ~(IsMatch(a.match, path, FALSE) /\ IsMatch(b.match, path, FALSE))

\* C15 as stated: exchanging any two non-conflicting rules changes the
\* result of matchFile for no path.
C15_Original ==
  [][\A m, n \in 1..Len(rules) :
       (/\ lastEdit' = <<"swap", m, n>>
        /\ rules' = Swap(rules, m, n)
        /\ NonConflicting(rules[m], rules[n]))
       => \A path \in RelativePaths : MatchFile(path, rules') = MatchFile(path, rules)]_vars

\* C15: exchanging two neighbouring non-conflicting rules changes the
\* result of matchFile for no path.
C15_AdjacentSwap ==
  [][\A m \in 1..Len(rules) :
       (/\ lastEdit' = <<"swap", m, m + 1>>
        /\ m < Len(rules)
        /\ rules' = Swap(rules, m, m + 1)
        /\ NonConflicting(rules[m], rules[m + 1]))
       => \A path \in RelativePaths : MatchFile(path, rules') = MatchFile(path, rules)]_vars

\* d/** was just moved in front of its neighbour *.j; the file shown, p.j,
\* still goes to *.j
C15_Witness ==
  /\ lastEdit = <<"swap", 1, 2>>
  /\ rules[1] = Rule(<<<<"d">>, Globstar>>, TRUE)
  /\ rules[2] = Rule(<<<<"*", ".", "j">>>>, TRUE)
  /\ NonConflicting(rules[1], rules[2])
  /\ relativePath = <<<<"p", ".", "j">>>>
  /\ matchedRule = MatchedRule(rules[2])

\* every entry of a returned tree, at any depth
RECURSIVE AllEntries(_)
AllEntries(q) ==
  UNION {{q[n]} \cup AllEntries(q[n].children) : n \in 1..Len(q)}

ReturnedPaths(q) == {e.relativePath : e \in AllEntries(q)}

\* some exclusion pattern matches the bare name or the relative path
MatchesExclusion(relPath, name) ==
  \E n \in 1..Len(exclusions) :
    IsMatch(exclusions[n], <<name>>, TRUE) \/ IsMatch(exclusions[n], relPath, TRUE)

\* the path itself and the directories above it, below the scan root
Prefixes(p) == {SubSeq(p, 1, k) : k \in 1..Len(p)}

\* C16: in the tree scanDirectory returns, no entry's name or relative path
\* matches an exclusion pattern, and no entry of the drive that matches one,
\* or lies below a directory that matches one, is in it, at any depth.
C16_ExcludedOmitted ==
  Len(scanEntries) = 1 =>
    /\ \A e \in AllEntries(scanEntries[1]) :
         /\ e.relativePath \in DOMAIN drive
         /\ e.name = ItemName(e.relativePath)
         /\ ~MatchesExclusion(e.relativePath, e.name)
    /\ \A p \in DOMAIN drive :
         (\E a \in Prefixes(p) : MatchesExclusion(a, ItemName(a)))
           => p \notin ReturnedPaths(scanEntries[1])

\* .D and **/M/** are excluded: d/.D, d/M and d/M/n.t are left out, d and
\* d/p.j are returned
C16_Witness ==
  /\ Len(scanEntries) = 1
  /\ exclusions = << <<DsStore>>, <<Globstar, MacOsx, Globstar>> >>
  /\ <<<<"d">>, MacOsx, <<"n", ".", "t">>>> \in DOMAIN drive
  /\ statFails = {} /\ readdirFails = {}
  /\ <<<<"d">>, <<"p", ".", "j">>>> \in ReturnedPaths(scanEntries[1])
  /\ <<<<"d">>, DsStore>> \notin ReturnedPaths(scanEntries[1])
  /\ <<<<"d">>, MacOsx>> \notin ReturnedPaths(scanEntries[1])

\* the entries a scan is to return: not excluded, not $RECYCLE.BIN, stat
\* succeeds, and the same for every directory above, each of which (and the
\* root) can be listed
Reachable(p) ==
  /\ \A a \in Prefixes(p) :
       /\ ~MatchesExclusion(a, ItemName(a))
       /\ ItemName(a) # RecycleBin
       /\ a \notin statFails
  /\ \A k \in 0..(Len(p) - 1) : SubSeq(p, 1, k) \notin readdirFails

\* C17: a stat failure removes the failing entry (with what lies below it)
\* from the result and nothing else: every entry that is reachable through
\* readable, non-excluded directories and whose own stat succeeds is
\* returned; with an unreadable root the result is the empty list.
C17_OnlyFailingOmitted ==
  Len(scanEntries) = 1 =>
    /\ ReturnedPaths(scanEntries[1]) = {p \in DOMAIN drive : Reachable(p)}
    /\ ScanRoot \in readdirFails => scanEntries[1] = <<>>

\* stat of d/p.j fails: its sibling d/.D and d/M/n.t are returned, it is not
C17_Witness ==
  /\ Len(scanEntries) = 1
  /\ statFails = {<<<<"d">>, <<"p", ".", "j">>>>}
  /\ readdirFails = {} /\ exclusions = <<>>
  /\ <<<<"d">>, DsStore>> \in ReturnedPaths(scanEntries[1])
  /\ <<<<"d">>, MacOsx, <<"n", ".", "t">>>> \in ReturnedPaths(scanEntries[1])
  /\ <<<<"d">>, <<"p", ".", "j">>>> \notin ReturnedPaths(scanEntries[1])

\* the await that was rejected for the run's current task belongs to an
\* optional stage: a content hash, or the stat inside getOrganizedPath
OptionalStageFailed(rec) ==
  \/ rec.errKind = "hash"
  \/ rec.errKind = "stat" /\ <<rec.i, "orgstat">> \in rec.ops

\* C18 as stated: a failure of an optional stage does not send the run to
\* its error handling and no snapshot with status error follows from it;
\* after a failed reorganization the task goes on with its own destination
\* path.
C18_Original ==
  \A r \in Runs :
    OptionalStageFailed(run[r]) =>
      /\ run[r].pc \notin {"catch", "afterError"}
      /\ \A k \in 1..Len(emitted[r]) : emitted[r][k].status # "error"
      /\ <<run[r].i, "orgstat">> \in run[r].ops =>
           run[r].destPath = CurrentTask(run[r]).destinationPath

\* the events written to the response of POST /api/copy: one per snapshot
\* the generator yielded, then what the catch wrote
Stream(r) ==
  [k \in 1..Len(emitted[r]) |-> [status |-> emitted[r][k].status, error |-> emitted[r][k].error]]
    \o sse[r].extra

\* C19 as stated: a history entry is saved only once the terminal snapshot
\* has been emitted, and an event with status completed or error is the
\* last event written to the stream.
C19_Original ==
  \A r \in Runs :
    /\ history # <<>> => (Len(emitted[r]) > 0 /\ Terminal(Last(emitted[r])))
    /\ \A k \in 1..(Len(Stream(r)) - 1) : ~Terminal(Stream(r)[k])

\* C20: every request's response is ended at some time, and an ended
\* response has a last event, whose status is completed or error, with a
\* message when it is error.
C20_EndsWithTerminal ==
  /\ \A r \in {1} : <>(sse[r].ended)
  /\ [](\A r \in Runs :
          sse[r].ended =>
            /\ Len(Stream(r)) > 0
            /\ Terminal(Last(Stream(r)))
            /\ Last(Stream(r)).status = "error" => Last(Stream(r)).error # Null)

\* loadRules threw before the first snapshot: the only event of the ended
\* response is the error event of the route's catch
C20_Witness ==
  \E r \in Runs :
    /\ sse[r].ended
    /\ Len(emitted[r]) = 0
    /\ Len(Stream(r)) = 1
    /\ Stream(r)[1].status = "error"
\* C21: nothing excludes one run from another: a run that found a path free
\* (or probed a free name) writes that path when its copy settles, whatever
\* another run has put there since the check.
C21_NoMutualExclusion ==
  [][\A r \in Runs :
       LET s == CurrentTask(run[r]).sourcePath
       IN (run[r].pc = "piping" /\ run'[r].pc # "piping" /\ StatOk(s))
            => dstFs'[run[r].destPath] = srcFs[s]]_vars

\* both runs found out/a free for a task and both copied onto it: each
\* check came before the other's write
C21_Witness ==
  /\ Cardinality(Runs) = 2
  /\ \A r \in Runs :
       \E i \in 1..Len(Files(run[r])) :
         /\ Files(run[r])[i].destinationPath = Path(OutDir, "a", 0)
         /\ {<<i, "destFree">>, <<i, "copied">>} \subseteq run[r].ops
  /\ Files(run[1])[1].sourcePath # Files(run[2])[1].sourcePath

\* C22: every snapshot of a run carries that run's id and the length of its
\* own task list, its counters count the run's own copied and skipped tasks
\* and their bytes, and a step of another run changes neither the run's
\* snapshots nor its progress object.
C22_OwnProgress ==
  /\ [](\A r \in Runs :
          /\ \A k \in 1..Len(emitted[r]) :
               /\ emitted[r][k].id = r
               /\ emitted[r][k].totalFiles = Len(Files(run[r]))
          /\ Len(emitted[r]) > 0 =>
               LET snap == Last(emitted[r])
                   own(kind) == {i \in 1..Len(Files(run[r])) : <<i, kind>> \in run[r].ops}
                   big == {i \in own("copied") \cup own("skipped") :
                             Files(run[r])[i].sourcePath = "y/b"}
               IN /\ snap.copiedFiles = Cardinality(own("copied"))
                  /\ snap.skippedFiles = Cardinality(own("skipped"))
                  /\ snap.copiedBytes = MaxSize * Cardinality(big))
  /\ [][\A a, b \in Runs :
         (a # b /\ run'[b] # run[b])
           => (emitted'[a] = emitted[a] /\ run'[a].progress = run[a].progress)]_vars

\* both runs have a copy in flight; the first has already counted one copied
\* file of its two, the second none of its one
C22_Witness ==
  /\ Cardinality(Runs) = 2
  /\ run[1].pc = "piping" /\ run[2].pc = "piping"
  /\ Last(emitted[1]).copiedFiles = 1 /\ Last(emitted[1]).totalFiles = 2
  /\ Last(emitted[2]).copiedFiles = 0 /\ Last(emitted[2]).totalFiles = 1

\* C23 as stated: a malformed pattern is reported when the configuration
\* is loaded, so matching a file never runs into one.
C23_Original == matchedRule # MatchThrew

\* C24: the stored history never holds more than 1000 entries and is
\* ordered most recent first; an entry added to a history of 1000 entries
\* becomes the head and the oldest entry, the last one, is dropped.
C24_HistoryCapped ==
  /\ [](/\ Len(history) <= MaxHistoryEntries
        /\ \A k \in 1..(Len(history) - 1) : history[k].timestamp >= history[k + 1].timestamp)
  /\ [][(/\ Len(history) = MaxHistoryEntries
          /\ Len(history') = MaxHistoryEntries
          /\ history' # history)
         => /\ history'[1].timestamp >= history[1].timestamp
            /\ \A k \in 2..MaxHistoryEntries : history'[k] = history[k - 1]]_vars

\* an entry was added to a full history: it is the head, and the entry of
\* the first run is gone
C24_Witness ==
  /\ Len(history) = MaxHistoryEntries
  /\ history[1].timestamp > MaxHistoryEntries
  /\ history[MaxHistoryEntries].id = 2

\* C25 as stated: whenever auto-delete removes a source file from the drive,
\* some destination file holds that source's content.
C25_Original ==
  [][\A s \in Sources :
       (srcFs[s] # Missing /\ srcFs'[s] = Missing /\ plugged' = plugged)
         => \E p \in DestPaths : dstFs[p] = srcFs[s]]_vars

\* C26 as stated: once a completed run with auto-delete has returned, every
\* source it copied is gone from the drive, whatever the other flags.
C26_Original ==
  \A r \in Runs :
    (/\ run[r].pc = "done"
     /\ run[r].features.scheduledActions /\ run[r].features.autoDeleteAfterCopy
     /\ Len(emitted[r]) > 0 /\ Last(emitted[r]).status = "completed")
      => \A i \in 1..Len(Files(run[r])) :
           <<i, "copied">> \in run[r].ops => srcFs[Files(run[r])[i].sourcePath] = Missing

\* C27 as stated: after every completed checkForDrives, a server process is
\* running if the check found at least one removable drive mounted.
C27_Original ==
  (watcher.pc = "idle" /\ watcher.checks > 0 /\ watcher.currentDrives # {})
    => watcher.serverProcess # Null

\* the position, among the siblings q, of the entry that is e or holds e
Within(q, e) == CHOOSE k \in 1..Len(q) : e \in AllEntries(<<q[k]>>)

\* e comes before f when the tree q is walked depth first, siblings in order
RECURSIVE DepthFirstBefore(_, _, _)
DepthFirstBefore(q, e, f) ==
  IF Within(q, e) # Within(q, f) THEN Within(q, e) < Within(q, f)
  ELSE DepthFirstBefore(q[Within(q, e)].children, e, f)

\* C28: flattenFiles returns the non-directory entries of the tree, all of
\* them and each once, in depth-first order with siblings in their order,
\* and no directory entry.
C28_FlattenFiles ==
  Len(scanEntries) = 2 =>
    LET tree == scanEntries[1]
        flat == scanEntries[2]
        files == {e \in AllEntries(tree) : ~e.isDirectory}
    IN /\ {flat[k] : k \in 1..Len(flat)} = files
       /\ Len(flat) = Cardinality(files)
       /\ \A k \in 1..Len(flat) : ~flat[k].isDirectory
       /\ \A m, n \in 1..Len(flat) : m < n => DepthFirstBefore(tree, flat[m], flat[n])

\* a tree with a directory inside a directory: d/M/n.t comes before d/p.j,
\* which comes before p.j
C28_Witness ==
  /\ Len(scanEntries) = 2
  /\ \E k \in 1..(Len(scanEntries[2]) - 2) :
       /\ scanEntries[2][k].relativePath = <<<<"d">>, MacOsx, <<"n", ".", "t">>>>
       /\ scanEntries[2][k + 1].relativePath = <<<<"d">>, <<"p", ".", "j">>>>
       /\ \E n \in (k + 2)..Len(scanEntries[2]) :
            scanEntries[2][n].relativePath = <<<<"p", ".", "j">>>>

\* C29 as stated: the step in which a task fails, and the error path after
\* it, leave every destination file the run has finished copying on disk
\* with the content it was given.
C29_Original ==
  [][\A r \in Runs :
       ((run[r].pc # "catch" /\ run'[r].pc = "catch") \/ run[r].pc \in {"catch", "afterError"})
         => \A n \in 1..Len(run[r].historyFiles) :
              run[r].historyFiles[n].status = "copied"
                => dstFs'[run[r].historyFiles[n].destinationPath]
                     = dstFs[run[r].historyFiles[n].destinationPath]]_vars

\* the positions at which the generator sits at a yield (or has not been
\* started): it goes on only when the consumer asks for the next snapshot
Parked == {"idle", "loop", "stat", "afterError", "afterComplete"}

\* C30: the tasks of a run go one after the other, at the consumer's pace:
\* work on task i happens only when the first snapshot, two snapshots for
\* each earlier task and the opening snapshot of task i have been handed
\* out and every earlier task has its result; a run has at most one copy in
\* flight, that of its current task; and a step that starts at a yield
\* writes no file and creates no directory.
C30_ConsumerDriven ==
  /\ [](\A r \in Runs :
          /\ \A op \in run[r].ops :
               /\ Len(emitted[r]) >= 2 * op[1]
               /\ \A i \in 1..(op[1] - 1) :
                    <<i, "copied">> \in run[r].ops \/ <<i, "skipped">> \in run[r].ops
          /\ \A i \in 1..Len(Files(run[r])) :
               (<<i, "write">> \in run[r].ops /\ <<i, "copied">> \notin run[r].ops)
                 => i = run[r].i)
  /\ [][(\A r \in Runs : run'[r] # run[r] => run[r].pc \in Parked)
         => (dstFs' = dstFs /\ dirs' = dirs)]_vars

\* a run of two tasks sits at the yield after its first copy; its second
\* file has not been touched
C30_Witness ==
  \E r \in Runs :
    /\ run[r].pc = "loop" /\ run[r].i = 2 /\ Len(Files(run[r])) = 2
    /\ run[r].ops = {<<1, "stat">>, <<1, "destFree">>, <<1, "write">>, <<1, "copied">>}
    /\ Len(emitted[r]) = 3
    /\ Files(run[r])[2].destinationPath = Path(OutDir, "b", 0)
    /\ dstFs[Path(OutDir, "b", 0)] = Missing

\* the bytes the pre-pass counts for a list of tasks on the drive as it is:
\* stats.size for a source that can be read, nothing for the others
RECURSIVE PrePassBytes(_)
PrePassBytes(files) ==
  IF files = <<>> THEN 0
  ELSE (IF StatOk(Head(files).sourcePath) THEN Size(srcFs[Head(files).sourcePath]) ELSE 0)
       + PrePassBytes(Tail(files))

\* C31: a source that cannot be read in the pre-pass adds 0 to totalBytes and
\* does not end the run before its first snapshot; once the task of a source
\* that was never readable has made its stat, nothing else is done for the
\* task and the run goes to its error snapshot and stops there, whatever the
\* duplicate policy and whether or not the destination exists.
C31_UnreadableSourceFailsAtItsTask ==
  \A r \in Runs :
    LET rec == run[r]
    IN /\ rec.pc \in {"catch", "threw"} => Len(emitted[r]) >= 1
       /\ (rec.pc = "loop" /\ rec.i = 1 /\ Len(emitted[r]) = 1)
            => emitted[r][1].totalBytes = PrePassBytes(Files(rec))
       /\ \A n \in 1..Len(Files(rec)) :
            (plugged /\ ~StatOk(Files(rec)[n].sourcePath) /\ <<n, "stat">> \in rec.ops)
              => /\ rec.i = n
                 /\ \A op \in rec.ops : op[1] = n => op[2] = "stat"
                 /\ rec.pc \in {"catch", "afterError", "done"}
                 /\ rec.pc # "catch" => Last(emitted[r]).status = "error"
                 /\ \A k \in 1..Len(emitted[r]) : emitted[r][k].status # "completed"

\* policy skip, the destination of the task exists, its source was never
\* readable while another source of the request was counted, and the run
\* has ended with the error snapshot
C31_Witness ==
  \E r \in Runs :
    /\ plugged
    /\ run[r].pc = "done"
    /\ run[r].onDuplicate = "skip"
    /\ run[r].errKind = "stat"
    /\ ~StatOk(CurrentTask(run[r]).sourcePath)
    /\ ExistsSync(dstFs, CurrentTask(run[r]).destinationPath)
    /\ Last(emitted[r]).status = "error"
    /\ Last(emitted[r]).totalBytes = MaxSize
    /\ Len(Files(run[r])) = 2

\* the pcs at which the generator is parked at a yield or has returned
AtYield == {"loop", "stat", "afterError", "afterComplete", "scheduled", "done"}

\* C32 as stated: in every snapshot copiedFiles is the number of tasks whose
\* stream copy to the destination has completed, for every feature
\* configuration (each snapshot is the last one at the yield that hands it out).
C32_Original ==
  \A r \in Runs :
    (run[r].pc \in AtYield /\ Len(emitted[r]) > 0)
      => Last(emitted[r]).copiedFiles
           = Cardinality(TasksWith(run[r], "copied", Len(Files(run[r])) + 1))

\* a snapshot without its run id
NoId(snap) == [snap EXCEPT !.id = 0]

\* C33: with policy skip the run with the content stage on yields, snapshot
\* by snapshot, what the run with it off yielded from the same drive and
\* disk (ids apart), and once it has returned the two snapshot sequences are
\* equal and the destination files are those the first run left.
C33_ContentStageNeutralUnderSkip ==
  /\ Len(emitted[2]) <= Len(emitted[1])
  /\ \A k \in 1..Len(emitted[2]) : NoId(emitted[2][k]) = NoId(emitted[1][k])
  /\ run[2].pc = "done" => (Len(emitted[2]) = Len(emitted[1]) /\ dstFs = twin.left[1])

\* the second run has returned after its content stage found one destination
\* that holds other bytes than the source and skipped the task, and it has
\* copied another task
C33_Witness ==
  /\ run[2].pc = "done"
  /\ \E n \in 1..Len(Files(run[2])) :
       /\ <<n, "dupcheck">> \in run[2].ops
       /\ <<n, "skipped">> \in run[2].ops
       /\ dstFs[Files(run[2])[n].destinationPath] # srcFs[Files(run[2])[n].sourcePath]
  /\ Last(emitted[2]).copiedFiles = 1
  /\ Last(emitted[2]).status = "completed"

\* the fields a history entry shares with a snapshot
Counters(x) ==
  <<x.id, x.status, x.totalFiles, x.copiedFiles, x.skippedFiles, x.totalBytes, x.copiedBytes>>

Records(entry, status) ==
  Cardinality({n \in 1..Len(entry.files) : entry.files[n].status = status})

\* C35 as stated: in every history entry the records with status copied are
\* as many as copiedFiles, those with status skipped as many as skippedFiles,
\* and there is one record with status error exactly when the entry's status
\* is error, for every feature configuration.
C35_Original ==
  \A k \in 1..Len(history) :
    /\ Records(history[k], "copied") = history[k].copiedFiles
    /\ Records(history[k], "skipped") = history[k].skippedFiles
    /\ Records(history[k], "error") = (IF history[k].status = "error" THEN 1 ELSE 0)

\* the run has copied a task that reads source s
CopiedFrom(rec, s) ==
  \E n \in 1..Len(Files(rec)) : Files(rec)[n].sourcePath = s /\ <<n, "copied">> \in rec.ops

C37_Original == Cardinality(watcher.alive) <= 1

\* a path lies in the tree below a directory
Below(path, dir) == Len(dir) <= Len(path) /\ SubSeq(path, 1, Len(dir)) = dir

\* C38 as stated: a file is sent only if its resolved path lies in the tree
\* of the USB mount directory; a request for any other file is answered 403
\* and nothing is read.
C38_Original ==
  preview # <<>> =>
    /\ preview[2].code = 200 => Below(preview[2].sent, Resolve(UsbMountPath))
    /\ (Resolve(preview[1]) \in DiskFiles /\ ~Below(Resolve(preview[1]), Resolve(UsbMountPath)))
         => preview[2].code = 403

\* C39 as stated: from the first snapshot the UI has received until it has
\* received the terminal one, the Copy buttons are disabled.
C39_Original ==
  (ui.received >= 1 /\ ~Terminal(ui.copyProgress)) => CopyDisabled(ui)

\* one sequence is the beginning of another
IsPrefix(q, t) == Len(q) <= Len(t) /\ SubSeq(t, 1, Len(q)) = q

\* C40: whatever chunks the response arrives in, the reader never throws,
\* what it has yielded is at every moment the beginning of what the server
\* has written, in order and each snapshot once, and when the stream is over
\* it has yielded all of it.
C40_ReaderYieldsWhatWasWritten ==
  /\ reader.pc # "threw"
  /\ IsPrefix(reader.yielded, reader.sent)
  /\ reader.pc = "done" => reader.yielded = reader.sent

\* the stream of MaxEvents events, one with a blank line in its text, has
\* been read to its end in chunks of which one ended inside a data: prefix
\* and one between the two newlines of an event
C40_Witness ==
  /\ reader.pc = "done"
  /\ Len(reader.yielded) = MaxEvents
  /\ \E k \in 1..Len(reader.yielded) : reader.yielded[k].error = <<LF, LF>>
  /\ reader.cuts = {"prefix", "newlines"}

====
